---- MODULE Spec2Model ----
(***************************************************************************)
(* Model of the load-test harness midl-xyz/load-test.                      *)
(*                                                                         *)
(*   NonceSpec : getNonce (utils), the per-address nonce allocator, with   *)
(*               any number of concurrent callers and a backend whose      *)
(*               transaction count may rise between calls.                 *)
(*   DistSpec  : distributeRunesToWallets (runes.ts), the tree-shaped      *)
(*               fan-out of a rune balance, with its transfers in flight   *)
(*               concurrently and every backend call free to fail.         *)
(*   LoadSpec  : runMultiWalletSwapLoadTest (tests/tps), the batched       *)
(*               construction and submission of one pipeline per wallet,   *)
(*               with its record-mode and its older variant.               *)
(*   PoolSpec  : createMultipleWallets (utils) and the mnemonic store it   *)
(*               reads and overwrites, reads and writes free to fail.      *)
(*               PoolOnceSpec is the same with a single call, as runTest   *)
(*               makes it.                                                 *)
(*   RetrySpec : edictRunesForSwap (bitcoin.ts), the retry by recursion.   *)
(*   CliSpec   : main and runTest (tests/tps), the stages of one run of    *)
(*               the command line, the top-up of the pool and the exit.    *)
(*   PrepSpec  : prepareTransactionsForWallet (tests/tps and its           *)
(*               record-mode variant), the pipelines of one batch built    *)
(*               concurrently, their nonces and their submission.          *)
(*   WaitSpec  : waitRuneAddress (utils), the polling of the asset         *)
(*               address of a rune.                                        *)
(***************************************************************************)
EXTENDS Integers, Sequences, FiniteSets, TLC

\* ------------------------------------------------------------------ bounds
\* Number of getNonce calls issued in one behaviour.
MaxCalls == 2
\* Number of distinct EVM addresses.
MaxAccounts == 2
\* Number of times the backend's transaction count rises during a behaviour.
MaxBackendSteps == 3

\* ----------------------------------------------------------------- helpers
Max(a, b) == IF a >= b THEN a ELSE b

Range(s) == { s[k] : k \in 1..Len(s) }

\* A JavaScript `undefined` entry of a number-valued map.
Undefined == -1

NoCall == 0

VARIABLES
    \* --- getNonce: module state of utils
    txCount,                 \* backend: midlRegtestClient.getTransactionCount
    noncesByAddress,         \* address -> number | undefined
    pendingNoncesByAddress,  \* address -> number | undefined
    nonceMutex,              \* the call holding nonceMutex, or NoCall
    \* --- getNonce: one record per call
    callPc,                  \* "idle" | "acquire" | "query" | "returned" | "failed"
    callAddr,                \* evmAddress of the call
    callSeen,                \* transactionCount the call read (Undefined before)
    callResult,              \* nonce the call returned (Undefined: none)
    \* --- getNonce: history
    txCount0,                \* the backend count at start
    backendSteps,            \* how often the backend count rose
    issued,                  \* address -> nonces returned, in order of return
    afterFailure             \* call -> it acquired the mutex after some call failed

nonceVars == << txCount, noncesByAddress, pendingNoncesByAddress, nonceMutex,
                callPc, callAddr, callSeen, callResult,
                txCount0, backendSteps, issued, afterFailure >>

VARIABLES
    \* --- distributeRunesToWallets: parameters
    sourceWallets,           \* sourceWallets
    walletsNeedingRunes,     \* walletsNeedingRunes
    \* --- distributeRunesToWallets: locals
    walletsWithRunes,
    remainingWallets,
    loopIndex,               \* i of the for loop (1-based)
    targetWallets,           \* the targets spliced off for source i
    distPc,                  \* "while" | "for" | "balance" | "all" | "sleep"
                             \* | "done" | "thrown"
    distError,               \* what threw: "none" | "getRuneBalance" | "txPromise"
    \* --- the ledger and the transfers issued
    runeBal,                 \* wallet -> rune balance (getRuneBalance)
    transfers,               \* every txPromise created, in order of creation
    rounds                   \* iterations of the while loop entered

distVars == << sourceWallets, walletsNeedingRunes, walletsWithRunes,
               remainingWallets, loopIndex, targetWallets, distPc, distError,
               runeBal, transfers, rounds >>

VARIABLES
    \* --- runMultiWalletSwapLoadTest: parameters
    ltMode,                  \* which runner: "live" | "record" | "iterations"
    wallets,                 \* wallets.length; the wallets are 1..wallets
    iterations,              \* params.iterations (the older runner)
    \* --- runMultiWalletSwapLoadTest: locals
    ltPc,                    \* "loop" | "awaitBuild" | "submitLoop" | "awaitSubmit"
                             \* | "record" | "returned" | "thrown"
    nextWallet,              \* the wallet the for loop stands at
    batch,                   \* batch
    transactionPromises,     \* transactionPromises, as the wallets they are for
    operations,              \* operations
    opIndex,                 \* i of the submission loop (1-based)
    results,                 \* results of the Promise.all in progress
    totalResults,            \* totalResults
    stats,                   \* the LoadTestStats returned
    jsonRpcPayloads,         \* jsonRpcPayloads (record mode)
    \* --- the promises, the backend and the file system
    build,                   \* wallet -> "none" | "pending" | "fulfilled" | "rejected"
    sendCount,               \* wallet -> calls of sendBTCTransactions for it
    payloadFile,             \* fs.writeFile: "none" | "pending" | "written" | "error"
    fileContent              \* content of payloads.json

loadVars == << ltMode, wallets, iterations, ltPc, nextWallet, batch,
               transactionPromises, operations, opIndex, results, totalResults,
               stats, jsonRpcPayloads, build, sendCount, payloadFile,
               fileContent >>

VARIABLES
    \* --- the file wallet_mnemonics.json
    storeFile,               \* [kind: "absent" | "list" | "unparseable" | "null"
                             \*        | "object", list]
    persisted,               \* every seed list the file has held, oldest first
    \* --- createMultipleWallets: the call in progress
    poolPc,                  \* "idle" | "connect" | "returned" | "thrown"
    poolCount,               \* count
    storedMnemonics,         \* storedMnemonics, same shape as storeFile
    poolIndex,               \* i of the for loop (1-based)
    poolWallets,             \* wallets: the mnemonic each was derived from, and
                             \* whether it has an ordinals account
    poolError,               \* "none" | "store" | "connect" | "ordinals"
    poolCallsLeft,           \* calls the caller still makes
    \* --- history
    poolCalls                \* the finished calls, oldest first

poolVars == << storeFile, persisted, poolPc, poolCount, storedMnemonics,
               poolIndex, poolWallets, poolError, poolCallsLeft, poolCalls >>

VARIABLES
    \* --- edictRunesForSwap
    retryBudget,             \* retry of the outermost call
    retry,                   \* retry of the innermost call
    retryPc,                 \* "idle" | "try" | "sleep" | "returned" | "thrown"
    attempts,                \* the errors of the edictRune calls made, in order
    slept,                   \* number of one-second waits
    thrownError              \* the attempt whose error the thrown Error wraps

retryVars == << retryBudget, retry, retryPc, attempts, slept, thrownError >>

VARIABLES
    \* --- main and runTest (tests/tps)
    cliPc,                   \* "connect" | "baseBalance" | "createWallets"
                             \* | "checkBalances" | "transfer" | "createRunes"
                             \* | "distribute" | "loadTest" | "completed"
                             \* | "returned" | "thrown"
    configTxCount,           \* config.txCount
    utxoBalance,             \* what getWalletBalance gives for each pool wallet
    cliWallets,              \* wallets.length; the wallets are 1..cliWallets
    checkIndex,              \* i of the balance loop (1-based)
    walletBalances,          \* the walletBalance read for each wallet so far
    walletsToFund,           \* walletsToFund
    transferAmounts,         \* transferAmounts
    fundIndex,               \* i of the transfer loop (1-based)
    cliError,                \* what was thrown, or why runTest returned early
    \* --- the funding wallet and the process
    topUps,                  \* the transferBTC calls from configFrom, in order
    exitCode                 \* exit code of the process, Undefined while it runs

cliVars == << cliPc, configTxCount, utxoBalance, cliWallets, checkIndex, walletBalances,
              walletsToFund, transferAmounts, fundIndex, cliError, topUps,
              exitCode >>

VARIABLES
    \* --- one batch of prepareTransactionsForWallet, one pipeline per account
    prepMode,                \* "live" (tests/tps) | "record" (part_003)
    prepPc,                  \* "awaitBuild" | "awaitSubmit" | "returned"
                             \* | "recorded" | "thrown"
    pipeStep,                \* wallet -> steps of its pipeline finished
    pipePhase,               \* wallet -> "run" | "acquire" | "query" | "sign"
                             \* | "built" | "rejected" | "sending" | "sent"
                             \* | "sendFailed"
    built,                   \* wallet -> the steps finished, in order
    allocated,               \* wallet -> the nonces getNonce returned to its
                             \* steps, in order, each with the step's kind
    sent                     \* wallet -> the calls of sendBTCTransactions

prepVars == << prepMode, prepPc, pipeStep, pipePhase, built, allocated, sent >>

VARIABLES
    \* --- waitRuneAddress
    waitPc,                  \* "poll" | "sleep" | "returned" | "thrown"
    polls,                   \* calls of getAssetAddressByRuneId that returned,
                             \* counted up to MaxPolls
    waitResult,              \* the address returned
    \* --- the executor contract
    directory                \* the asset address it holds for the rune

waitVars == << waitPc, polls, waitResult, directory >>

vars == << nonceVars, distVars, loadVars, poolVars, retryVars, cliVars,
           prepVars, waitVars >>

\* What the actions of one component leave alone.
notNonceVars == << distVars, loadVars, poolVars, retryVars, cliVars,
    prepVars, waitVars >>

notDistVars == << nonceVars, loadVars, poolVars, retryVars, cliVars,
    prepVars, waitVars >>

notLoadVars == << nonceVars, distVars, poolVars, retryVars, cliVars,
    prepVars, waitVars >>

notPoolVars == << nonceVars, distVars, loadVars, retryVars, cliVars,
    prepVars, waitVars >>

notRetryVars == << nonceVars, distVars, loadVars, poolVars, cliVars,
    prepVars, waitVars >>

notCliVars == << nonceVars, distVars, loadVars, poolVars, retryVars,
                prepVars, waitVars >>

notPrepVars == << distVars, loadVars, poolVars, retryVars, cliVars, waitVars >>

notWaitVars == << nonceVars, distVars, loadVars, poolVars, retryVars, cliVars,
                 prepVars >>

Calls == 1..MaxCalls
Accounts == 1..MaxAccounts

\* Backend counts a behaviour may start from.
InitCounts == {0, 5}

\* ------------------------------------------------------- getNonce (utils)

\* lines 82-87: initialise the stored nonce, or take the maximum of the stored
\* nonce and the blockchain's.
StoredNonce(stored, transactionCount) ==
    IF stored = Undefined THEN transactionCount
    ELSE Max(stored, transactionCount)

PendingNonce_Reset(pending, stored) == stored

\* lines 90-95: the pending nonce is initialised from the stored nonce only when
\* it is undefined; the nonce handed out is the pending nonce.
PendingNonce(pending, stored) ==
    IF pending = Undefined THEN stored ELSE pending

NextPending_Same(nonce) == nonce

NextPending_Skip(nonce) == nonce + 2

\* line 98
NextPending(nonce) == nonce + 1

\* The distribution is not running.
DistIdle ==
    /\ sourceWallets = << >>
    /\ walletsNeedingRunes = << >>
    /\ walletsWithRunes = << >>
    /\ remainingWallets = << >>
    /\ loopIndex = 1
    /\ targetWallets = << >>
    /\ distPc = "done"
    /\ distError = "none"
    /\ runeBal = << >>
    /\ transfers = << >>
    /\ rounds = 0

\* Number.MAX_SAFE_INTEGER is 2^53 - 1; TLC's integers end at 2^31 - 1, which
\* stands for it: like 2^53 - 1 it is above every latency of the model.
MaxSafeInteger == 2147483647

\* lines 125-136: the statistics before any result is processed; avgTimeMs
\* is kept as the fraction << dividend, divisor >>
InitialStats(total) ==
    [ totalOperations |-> total, successfulOperations |-> 0,
      failedOperations |-> 0, totalTimeMs |-> 0,
      minTimeMs |-> MaxSafeInteger, maxTimeMs |-> 0,
      avgTimeMs |-> << 0, 1 >>, operationTimes |-> << >>, errors |-> << >> ]

\* The load test is not running.
LoadIdle ==
    /\ ltMode = "live"
    /\ wallets = 0
    /\ iterations = 0
    /\ ltPc = "returned"
    /\ nextWallet = 1
    /\ batch = 0
    /\ transactionPromises = << >>
    /\ operations = << >>
    /\ opIndex = 1
    /\ results = << >>
    /\ totalResults = << >>
    /\ stats = InitialStats(0)
    /\ jsonRpcPayloads = << >>
    /\ build = << >>
    /\ sendCount = << >>
    /\ payloadFile = "none"
    /\ fileContent = << >>

\* A value JSON.parse can give, or the outcome of not getting one.
Parsed(kind, list) == [kind |-> kind, list |-> list]

\* createMultipleWallets is not running and the store was never written.
PoolIdle ==
    /\ storeFile = Parsed("absent", << >>)
    /\ persisted = << >>
    /\ poolPc = "idle"
    /\ poolCount = 0
    /\ storedMnemonics = Parsed("list", << >>)
    /\ poolIndex = 1
    /\ poolWallets = << >>
    /\ poolError = "none"
    /\ poolCallsLeft = 0
    /\ poolCalls = << >>

\* edictRunesForSwap is not running.
RetryIdle ==
    /\ retryBudget = 0
    /\ retry = 0
    /\ retryPc = "idle"
    /\ attempts = << >>
    /\ slept = 0
    /\ thrownError = 0


\* The script is not running.
CliIdle ==
    /\ cliPc = "completed"
    /\ configTxCount = 0
    /\ utxoBalance = << >>
    /\ cliWallets = 0
    /\ checkIndex = 1
    /\ walletBalances = << >>
    /\ walletsToFund = << >>
    /\ transferAmounts = << >>
    /\ fundIndex = 1
    /\ cliError = "none"
    /\ topUps = << >>
    /\ exitCode = Undefined

\* line 11: zeroAddress (viem), the address the contract gives for a rune it does not
\* know yet
ZeroAddress == 0

\* waitRuneAddress is not running.
WaitIdle ==
    /\ waitPc = "returned"
    /\ polls = 0
    /\ waitResult = Undefined
    /\ directory = ZeroAddress

\* No batch of pipelines is being built.
PrepIdle ==
    /\ prepMode = "live"
    /\ prepPc = "returned"
    /\ pipeStep = << >>
    /\ pipePhase = << >>
    /\ built = << >>
    /\ allocated = << >>
    /\ sent = << >>

NonceInit ==
    /\ DistIdle
    /\ LoadIdle
    /\ PoolIdle
    /\ RetryIdle
    /\ CliIdle
    /\ PrepIdle
    /\ WaitIdle
    /\ txCount \in [Accounts -> InitCounts]
    /\ txCount0 = txCount
    /\ noncesByAddress = [a \in Accounts |-> Undefined]
    /\ pendingNoncesByAddress = [a \in Accounts |-> Undefined]
    /\ nonceMutex = NoCall
    /\ callPc = [c \in Calls |-> "idle"]
    /\ callAddr = [c \in Calls |-> 1]
    /\ callSeen = [c \in Calls |-> Undefined]
    /\ callResult = [c \in Calls |-> Undefined]
    /\ backendSteps = 0
    /\ issued = [a \in Accounts |-> << >>]
    /\ afterFailure = [c \in Calls |-> FALSE]

\* lines 65-74: getNonce(wallet) is called; the address is derived and the call
\* waits for nonceMutex.
GetNonceCall(c, a) ==
    /\ callPc[c] = "idle"
    /\ callPc' = [callPc EXCEPT ![c] = "acquire"]
    /\ callAddr' = [callAddr EXCEPT ![c] = a]
    /\ UNCHANGED << txCount, noncesByAddress, pendingNoncesByAddress, nonceMutex,
                    callSeen, callResult, txCount0, backendSteps, issued,
                    afterFailure, notNonceVars >>

MutexFree_Always(holder) == TRUE

\* lines 56, 74: the promise of nonceMutex.acquire() resolves only while no
\* call holds the mutex
MutexFree(holder) == holder = NoCall

\* line 74: nonceMutex.acquire() resolves; the call goes on to await
\* getTransactionCount (line 77) while holding the mutex.
GetNonceAcquire(c) ==
    /\ callPc[c] = "acquire"
    /\ MutexFree(nonceMutex)
    /\ nonceMutex' = c
    /\ callPc' = [callPc EXCEPT ![c] = "query"]
    /\ afterFailure' = [afterFailure EXCEPT
                           ![c] = \E d \in Calls : callPc[d] = "failed"]
    /\ UNCHANGED << txCount, noncesByAddress, pendingNoncesByAddress,
                    callAddr, callSeen, callResult, txCount0, backendSteps,
                    issued, notNonceVars >>

GetNonceRelease_Keep(c) == c

\* lines 100-102: finally { release() }
GetNonceRelease(c) == NoCall

\* lines 77-102: getTransactionCount resolves; the counters are updated, the
\* nonce is returned and the mutex released, with no await in between.
GetNonceReturn(c) ==
    /\ callPc[c] = "query"
    /\ nonceMutex = c
    /\ LET a == callAddr[c]
           transactionCount == txCount[a]
           stored == StoredNonce(noncesByAddress[a], transactionCount)
           nonce == PendingNonce(pendingNoncesByAddress[a], stored)
       IN  /\ noncesByAddress' = [noncesByAddress EXCEPT ![a] = stored]
           /\ pendingNoncesByAddress' =
                  [pendingNoncesByAddress EXCEPT ![a] = NextPending(nonce)]
           /\ callSeen' = [callSeen EXCEPT ![c] = transactionCount]
           /\ callResult' = [callResult EXCEPT ![c] = nonce]
           /\ issued' = [issued EXCEPT ![a] = Append(@, nonce)]
    /\ callPc' = [callPc EXCEPT ![c] = "returned"]
    /\ nonceMutex' = GetNonceRelease(c)
    /\ UNCHANGED << txCount, callAddr, txCount0, backendSteps, afterFailure,
                    notNonceVars >>

\* lines 77, 100-106: getTransactionCount rejects; finally releases the mutex
\* and the catch block rethrows "Failed to get nonce".
GetNonceFail(c) ==
    /\ callPc[c] = "query"
    /\ nonceMutex = c
    /\ callPc' = [callPc EXCEPT ![c] = "failed"]
    /\ nonceMutex' = GetNonceRelease(c)
    /\ UNCHANGED << txCount, noncesByAddress, pendingNoncesByAddress,
                    callAddr, callSeen, callResult, txCount0, backendSteps,
                    issued, afterFailure, notNonceVars >>

\* The backend's transaction count of an address rises: a transaction of that
\* address was mined, whether this process or another one issued it.
BackendAdvance(a) ==
    /\ backendSteps < MaxBackendSteps
    /\ backendSteps' = backendSteps + 1
    /\ txCount' = [txCount EXCEPT ![a] = @ + 1]
    /\ UNCHANGED << noncesByAddress, pendingNoncesByAddress, nonceMutex,
                    callPc, callAddr, callSeen, callResult, txCount0, issued,
                    afterFailure, notNonceVars >>

NonceNext ==
    \/ \E c \in Calls, a \in Accounts : GetNonceCall(c, a)
    \/ \E c \in Calls : GetNonceAcquire(c)
    \/ \E c \in Calls : GetNonceReturn(c)
    \/ \E c \in Calls : GetNonceFail(c)
    \/ \E a \in Accounts : BackendAdvance(a)

NonceSpec == NonceInit /\ [][NonceNext]_vars

\* --------------------------------------- distributeRunesToWallets (runes.ts)

\* A behaviour distributes from the wallets 1..S to the wallets S+1..S+T.
MaxSources == 2
MaxTargets == 9

\* Rune balances a source wallet may start with.
InitBalances == {0, 7, 300000}

\* line 226: remainingWallets.splice(0, 2) returns at most this many wallets.
BranchingFactor == 2

\* line 238: newBalance / 3n
ShareDivisor == 3

Min(a, b) == IF a <= b THEN a ELSE b

RECURSIVE Flat(_)
\* Array.prototype.flat (line 264)
Flat(batches) ==
    IF batches = << >> THEN << >> ELSE Head(batches) \o Flat(Tail(batches))

SpliceHead_Three(remaining) == SubSeq(remaining, 1, Min(3, Len(remaining)))

\* line 226: the wallets splice(0, 2) returns
SpliceHead(remaining) ==
    SubSeq(remaining, 1, Min(BranchingFactor, Len(remaining)))

SpliceRest_One(remaining) == Tail(remaining)

\* line 226: the wallets splice(0, 2) leaves in remainingWallets
SpliceRest(remaining) ==
    SubSeq(remaining, Min(BranchingFactor, Len(remaining)) + 1, Len(remaining))

Share_Whole(balance) == balance

\* lines 237-238: BigInt(runeBalance.balance) / 3n
Share(balance) == balance \div ShareDivisor

Promote_NewFirst(sources, newrunesWallets) == newrunesWallets \o sources

Promote_Replace(sources, newrunesWallets) == newrunesWallets

\* line 265: walletsWithRunes = [...walletsWithRunes, ...newrunesWallets]
Promote(sources, newrunesWallets) == sources \o newrunesWallets

\* The txPromises of the current iteration (transactionPromises, line 222).
TransactionPromises == SelectSeq(transfers, LAMBDA t : t.round = rounds)

AllOutcome_Settled(promises) ==
    IF \E k \in 1..Len(promises) : promises[k].promise = "pending"
    THEN "pending" ELSE "fulfilled"

\* line 261: Promise.all rejects as soon as one promise has rejected and
\* fulfils once every promise has fulfilled.
AllOutcome(promises) ==
    IF \E k \in 1..Len(promises) : promises[k].promise = "rejected"
    THEN "rejected"
    ELSE IF \A k \in 1..Len(promises) : promises[k].promise = "fulfilled"
         THEN "fulfilled" ELSE "pending"

\* line 261: the values of the fulfilled promises, in order of creation
ConfirmedBatches(promises) ==
    [k \in 1..Len(SelectSeq(promises, LAMBDA t : t.promise = "fulfilled")) |->
        SelectSeq(promises, LAMBDA t : t.promise = "fulfilled")[k].targets]

\* getNonce is not running.
NonceIdle ==
    /\ txCount = [a \in Accounts |-> 0]
    /\ txCount0 = txCount
    /\ noncesByAddress = [a \in Accounts |-> Undefined]
    /\ pendingNoncesByAddress = [a \in Accounts |-> Undefined]
    /\ nonceMutex = NoCall
    /\ callPc = [c \in Calls |-> "idle"]
    /\ callAddr = [c \in Calls |-> 1]
    /\ callSeen = [c \in Calls |-> Undefined]
    /\ callResult = [c \in Calls |-> Undefined]
    /\ backendSteps = 0
    /\ issued = [a \in Accounts |-> << >>]
    /\ afterFailure = [c \in Calls |-> FALSE]

\* lines 213-216: the call, after the two arrays were copied
DistInit ==
    /\ NonceIdle
    /\ LoadIdle
    /\ PoolIdle
    /\ RetryIdle
    /\ CliIdle
    /\ PrepIdle
    /\ WaitIdle
    /\ \E S \in 0..MaxSources, T \in 0..MaxTargets :
          /\ sourceWallets = [k \in 1..S |-> k]
          /\ walletsNeedingRunes = [k \in 1..T |-> S + k]
          /\ \E b \in [1..S -> InitBalances] :
                runeBal = [w \in 1..(S + T) |-> IF w <= S THEN b[w] ELSE 0]
    /\ walletsWithRunes = sourceWallets
    /\ remainingWallets = walletsNeedingRunes
    /\ loopIndex = 1
    /\ targetWallets = << >>
    /\ distPc = "while"
    /\ distError = "none"
    /\ transfers = << >>
    /\ rounds = 0

\* line 218-222: the while condition; a new iteration starts with an empty
\* transactionPromises, or the function returns.
DistWhile ==
    /\ distPc = "while"
    /\ IF Len(remainingWallets) > 0
       THEN /\ distPc' = "for"
            /\ loopIndex' = 1
            /\ rounds' = rounds + 1
       ELSE /\ distPc' = "done"
            /\ UNCHANGED << loopIndex, rounds >>
    /\ UNCHANGED << notDistVars, distError, sourceWallets, walletsNeedingRunes, walletsWithRunes,
                    remainingWallets, targetWallets, runeBal, transfers >>

\* lines 224-231: the for condition holds; up to two targets are spliced off
\* and the balance of source i is requested.
DistForBody ==
    /\ distPc = "for"
    /\ loopIndex <= Len(walletsWithRunes) /\ Len(remainingWallets) > 0
    /\ targetWallets' = SpliceHead(remainingWallets)
    /\ remainingWallets' = SpliceRest(remainingWallets)
    /\ distPc' = "balance"
    /\ UNCHANGED << notDistVars, distError, sourceWallets, walletsNeedingRunes, walletsWithRunes,
                    loopIndex, runeBal, transfers, rounds >>

\* lines 224, 260-261, 269-271: the for loop ends; with promises to await the
\* function awaits Promise.all, with none it breaks out of the while loop.
DistForExit ==
    /\ distPc = "for"
    /\ ~(loopIndex <= Len(walletsWithRunes) /\ Len(remainingWallets) > 0)
    /\ distPc' = IF Len(TransactionPromises) > 0 THEN "all" ELSE "done"
    /\ UNCHANGED << notDistVars, distError, sourceWallets, walletsNeedingRunes, walletsWithRunes,
                    remainingWallets, loopIndex, targetWallets, runeBal,
                    transfers, rounds >>

\* lines 231-255: getRuneBalance resolves; the share is computed and
\* createEdictForMultipleWallets is started (it runs up to its await of
\* edictRune); the promise is pushed and the for loop goes on with i + 1.
DistBalanceOk ==
    /\ distPc = "balance"
    /\ LET src == walletsWithRunes[loopIndex]
           balance == runeBal[src]
       IN  transfers' = Append(transfers,
               [round |-> rounds, src |-> src, targets |-> targetWallets,
                balance |-> balance, share |-> Share(balance),
                tx |-> "none", promise |-> "pending"])
    /\ targetWallets' = << >>
    /\ loopIndex' = loopIndex + 1
    /\ distPc' = "for"
    /\ UNCHANGED << notDistVars, distError, sourceWallets, walletsNeedingRunes, walletsWithRunes,
                    remainingWallets, runeBal, rounds >>

\* line 231: getRuneBalance rejects; the exception leaves the function.
DistBalanceFail ==
    /\ distPc = "balance"
    /\ distPc' = "thrown"
    /\ distError' = "getRuneBalance"
    /\ UNCHANGED << notDistVars, sourceWallets, walletsNeedingRunes,
                    walletsWithRunes, remainingWallets, loopIndex,
                    targetWallets, runeBal, transfers, rounds >>

\* lines 144-151: edictRune (publish: true) resolves: the transaction carrying
\* `share` to each receiver was built and broadcast.
EdictOk(k) ==
    /\ transfers[k].promise = "pending" /\ transfers[k].tx = "none"
    /\ transfers' = [transfers EXCEPT ![k].tx = "sent"]
    /\ UNCHANGED << notDistVars, distError, sourceWallets, walletsNeedingRunes, walletsWithRunes,
                    remainingWallets, loopIndex, targetWallets, distPc,
                    runeBal, rounds >>

\* lines 144, 242-249: edictRune rejects, and with it the txPromise.
EdictFail(k) ==
    /\ transfers[k].promise = "pending" /\ transfers[k].tx = "none"
    /\ transfers' = [transfers EXCEPT ![k].promise = "rejected"]
    /\ UNCHANGED << notDistVars, distError, sourceWallets, walletsNeedingRunes, walletsWithRunes,
                    remainingWallets, loopIndex, targetWallets, distPc,
                    runeBal, rounds >>

\* The broadcast transaction is mined: the ledger moves `share` from the
\* source to each receiver (lines 132-142: one rune transfer per receiver).
TxMined(k) ==
    /\ transfers[k].tx = "sent"
    /\ LET t == transfers[k]
       IN  runeBal' = [w \in DOMAIN runeBal |->
               IF w = t.src THEN runeBal[w] - t.share * Len(t.targets)
               ELSE IF w \in Range(t.targets) THEN runeBal[w] + t.share
               ELSE runeBal[w]]
    /\ transfers' = [transfers EXCEPT ![k].tx = "mined"]
    /\ UNCHANGED << notDistVars, distError, sourceWallets, walletsNeedingRunes, walletsWithRunes,
                    remainingWallets, loopIndex, targetWallets, distPc,
                    rounds >>

Confirmed_Sent(tx) == tx \in {"sent", "mined"}

\* line 251: waitForTransaction(config, tx.id, 1) resolves at one confirmation
Confirmed(tx) == tx = "mined"

\* lines 249-253: waitForTransaction(.., 1) resolves once the transaction has a
\* confirmation; the txPromise fulfils with targetWallets.
WaitOk(k) ==
    /\ transfers[k].promise = "pending" /\ Confirmed(transfers[k].tx)
    /\ transfers' = [transfers EXCEPT ![k].promise = "fulfilled"]
    /\ UNCHANGED << notDistVars, distError, sourceWallets, walletsNeedingRunes, walletsWithRunes,
                    remainingWallets, loopIndex, targetWallets, distPc,
                    runeBal, rounds >>

\* line 251: waitForTransaction rejects, and with it the txPromise; the
\* transaction itself stays broadcast.
WaitFail(k) ==
    /\ transfers[k].promise = "pending" /\ transfers[k].tx \in {"sent", "mined"}
    /\ transfers' = [transfers EXCEPT ![k].promise = "rejected"]
    /\ UNCHANGED << notDistVars, distError, sourceWallets, walletsNeedingRunes, walletsWithRunes,
                    remainingWallets, loopIndex, targetWallets, distPc,
                    runeBal, rounds >>

\* lines 261-267: Promise.all fulfils; the confirmed targets join the sources.
DistAllFulfilled ==
    /\ distPc = "all"
    /\ AllOutcome(TransactionPromises) = "fulfilled"
    /\ walletsWithRunes' =
           Promote(walletsWithRunes, Flat(ConfirmedBatches(TransactionPromises)))
    /\ distPc' = "sleep"
    /\ UNCHANGED << notDistVars, distError, sourceWallets, walletsNeedingRunes, remainingWallets,
                    loopIndex, targetWallets, runeBal, transfers, rounds >>

\* line 261: Promise.all rejects; the exception leaves the function.
DistAllRejected ==
    /\ distPc = "all"
    /\ AllOutcome(TransactionPromises) = "rejected"
    /\ distPc' = "thrown"
    /\ distError' = "txPromise"
    /\ UNCHANGED << notDistVars, sourceWallets, walletsNeedingRunes,
                    walletsWithRunes, remainingWallets, loopIndex,
                    targetWallets, runeBal, transfers, rounds >>

\* line 268: the settling delay has passed.
DistSleep ==
    /\ distPc = "sleep"
    /\ distPc' = "while"
    /\ UNCHANGED << notDistVars, distError, sourceWallets, walletsNeedingRunes, walletsWithRunes,
                    remainingWallets, loopIndex, targetWallets, runeBal,
                    transfers, rounds >>

DistNext ==
    \/ DistWhile
    \/ DistForBody
    \/ DistForExit
    \/ DistBalanceOk
    \/ DistBalanceFail
    \/ \E k \in 1..Len(transfers) : EdictOk(k)
    \/ \E k \in 1..Len(transfers) : EdictFail(k)
    \/ \E k \in 1..Len(transfers) : TxMined(k)
    \/ \E k \in 1..Len(transfers) : WaitOk(k)
    \/ \E k \in 1..Len(transfers) : WaitFail(k)
    \/ DistAllFulfilled
    \/ DistAllRejected
    \/ DistSleep

DistSpec == DistInit /\ [][DistNext]_vars

\* Every awaited backend call settles and every continuation that can run is
\* run by the event loop.
DistFairSpec == DistSpec /\ WF_vars(DistNext)

\* ------------------------------------------------- claims about getNonce

Returned(c) == callPc[c] = "returned"

\* C1 (uniqueness): whatever the interleaving of the calls and however the
\* backend count changes between them, no two getNonce calls that return for
\* the same address return the same nonce.
C1_Uniqueness ==
    \A c, d \in Calls :
        (c # d /\ Returned(c) /\ Returned(d) /\ callAddr[c] = callAddr[d])
            => callResult[c] # callResult[d]

\* Two calls returned for one address, and the backend count rose between them.
C1_Witness ==
    \E c, d \in Calls :
        /\ c # d /\ Returned(c) /\ Returned(d)
        /\ callAddr[c] = callAddr[d]
        /\ callSeen[c] < callSeen[d]

\* C2 (no gaps): while the backend count of an address has stayed at its
\* initial value c, the k calls that returned for it got c, c+1, ..., c+k-1 in
\* the order in which they held the mutex, and the pending nonce is c+k.
C2_NoGaps ==
    \A a \in Accounts :
        txCount[a] = txCount0[a] =>
            /\ \A k \in 1..Len(issued[a]) : issued[a][k] = txCount0[a] + k - 1
            /\ Len(issued[a]) > 0 =>
                   pendingNoncesByAddress[a] = txCount0[a] + Len(issued[a])

\* Backend count 5, two callers: results 5 and 6, pending nonce 7.
C2_Witness ==
    \E a \in Accounts :
        /\ txCount0[a] = 5 /\ txCount[a] = 5
        /\ issued[a] = << 5, 6 >>
        /\ pendingNoncesByAddress[a] = 7

\* C3 (monotonicity after external issuance): a call that read a backend
\* count raised above its initial value returns a nonce that is not below the
\* count it read, that is, a nonce above every sequence number the backend
\* reports as consumed.
C3_MonotonicAfterExternal ==
    \A c \in Calls :
        (Returned(c) /\ callSeen[c] > txCount0[callAddr[c]])
            => callResult[c] >= callSeen[c]

\* C4 (backend query failure): the step in which the query of a call fails
\* hands out no nonce, leaves every counter as it was and frees the mutex; a
\* failed call never has a result and the mutex is only ever held by a call
\* that is still awaiting its query.
C4_QueryFailure ==
    /\ [](/\ \A c \in Calls : callPc[c] = "failed" => callResult[c] = Undefined
          /\ nonceMutex # NoCall => callPc[nonceMutex] = "query")
    /\ [][\A c \in Calls :
            (callPc[c] = "query" /\ callPc'[c] = "failed") =>
                /\ noncesByAddress' = noncesByAddress
                /\ pendingNoncesByAddress' = pendingNoncesByAddress
                /\ issued' = issued
                /\ callResult' = callResult
                /\ nonceMutex' = NoCall]_vars

\* A call failed, and a call that acquired the mutex afterwards returned.
C4_Witness ==
    \E c, d \in Calls :
        /\ callPc[c] = "failed"
        /\ Returned(d) /\ afterFailure[d]

\* C23 (counter invariant): for every account with both counters defined,
\* pendingNoncesByAddress is at least noncesByAddress, whatever allocations
\* and rises of the backend count occurred.
C23_PendingAtLeastStored ==
    \A a \in Accounts :
        (noncesByAddress[a] # Undefined /\ pendingNoncesByAddress[a] # Undefined)
            => pendingNoncesByAddress[a] >= noncesByAddress[a]

\* C24 (mutual exclusion): at most one call is between nonceMutex.acquire()
\* and release(), and it is the holder of the mutex; while a call awaits its
\* backend query inside that section, no step of another call reads or writes
\* a counter or hands out a nonce.
C24_MutualExclusion ==
    /\ [](/\ Cardinality({c \in Calls : callPc[c] = "query"}) <= 1
          /\ \A c \in Calls : callPc[c] = "query" => nonceMutex = c)
    /\ [][\A c \in Calls :
            (callPc[c] = "query" /\ callPc'[c] = "query")
                => UNCHANGED << noncesByAddress, pendingNoncesByAddress,
                                issued, callResult, callSeen >>]_vars

\* A call for one account awaits its backend query, holding the mutex, while
\* a call for another account waits for the mutex.
C24_Witness ==
    \E c \in Calls, d \in Calls :
        /\ callPc[c] = "query"
        /\ callPc[d] = "acquire"
        /\ callAddr[c] # callAddr[d]

\* --------------------------------- claims about distributeRunesToWallets

Count(seq, x) == Cardinality({ k \in 1..Len(seq) : seq[k] = x })

\* The transfers that name wallet t as a receiver.
TransfersTo(t) == { k \in 1..Len(transfers) : t \in Range(transfers[k].targets) }

\* No backend call of the distribution has failed so far.
NoFailure ==
    /\ distPc # "thrown"
    /\ \A k \in 1..Len(transfers) : transfers[k].promise # "rejected"

\* How often target t is held by the running iteration: spliced off for the
\* source whose balance is being read, or named by a txPromise of the iteration
\* whose targets were not promoted yet.
InFlightCount(t) ==
    Count(targetWallets, t)
    + (IF distPc \in {"for", "balance", "all"}
       THEN Cardinality({ k \in TransfersTo(t) : transfers[k].round = rounds })
       ELSE 0)

\* C5 (tree coverage): with a non-empty source set and no failure, no target
\* is ever named by two transfers or promoted twice; when the function returns
\* the remaining list is empty and every target was the receiver of exactly one
\* transfer and was promoted exactly once; and the function does return.
C5_TreeCoverage ==
    /\ [](  (Len(sourceWallets) > 0 /\ NoFailure) =>
               /\ \A t \in Range(walletsNeedingRunes) :
                     /\ Cardinality(TransfersTo(t)) <= 1
                     /\ Count(walletsWithRunes, t) <= 1
               /\ distPc = "done" =>
                     /\ remainingWallets = << >>
                     /\ \A t \in Range(walletsNeedingRunes) :
                           /\ Cardinality(TransfersTo(t)) = 1
                           /\ Count(walletsWithRunes, t) = 1 )
    /\ <>(distPc = "done" \/ ~NoFailure)

\* The function returned after three rounds that funded nine targets.
C5_Witness ==
    /\ distPc = "done" /\ Len(sourceWallets) > 0
    /\ Len(walletsNeedingRunes) >= 9
    /\ \A t \in Range(walletsNeedingRunes) :
          Cardinality(TransfersTo(t)) = 1 /\ Count(walletsWithRunes, t) = 1

RECURSIVE CeilLog(_, _, _)
\* The least r >= acc with base^r >= n, given pow = base^acc (as a triple
\* <<base, pow, acc>>).
CeilLog(n, bpa, fuel) ==
    IF bpa[2] >= n \/ fuel = 0 THEN bpa[3]
    ELSE CeilLog(n, << bpa[1], bpa[2] * bpa[1], bpa[3] + 1 >>, fuel - 1)

CeilLog2(n) == CeilLog(n, << 2, 1, 0 >>, n)
CeilLog3(n) == CeilLog(n, << 3, 1, 0 >>, n)

OneSourceDone ==
    /\ distPc = "done"
    /\ Len(sourceWallets) = 1
    /\ Len(walletsNeedingRunes) >= 1

\* C6 as stated: from one source and without failures the function returns
\* after exactly ceil(log2(targetCount)) + 1 rounds.
C6_Original ==
    OneSourceDone => rounds = CeilLog2(Len(walletsNeedingRunes)) + 1

\* C6 (round count), amended: from one source and without failures the
\* function returns after exactly ceil(log3(targetCount + 1)) rounds, the
\* least r with 3^r >= targetCount + 1, because every source funds two targets
\* per round and stays a source.
C6_RoundCount ==
    OneSourceDone => rounds = CeilLog3(Len(walletsNeedingRunes) + 1)

\* Nine targets took three rounds.
C6_Witness ==
    OneSourceDone /\ Len(walletsNeedingRunes) >= 9 /\ rounds = 3

\* What transfer t moves out of its source.
Sent(t) == t.share * Len(t.targets)

\* C7 (conservation): every transfer carries at most the balance its source
\* held when it was read in that round; once the transfer is mined, what was
\* sent plus what the source has left does not exceed that balance; and no
\* wallet's balance ever goes below zero.
C7_Conservation ==
    /\ \A k \in 1..Len(transfers) :
          /\ Len(transfers[k].targets) <= BranchingFactor
          /\ Sent(transfers[k]) <= transfers[k].balance
          /\ (transfers[k].round = rounds /\ transfers[k].tx = "mined") =>
                 Sent(transfers[k]) + runeBal[transfers[k].src]
                     <= transfers[k].balance
    /\ \A w \in DOMAIN runeBal : runeBal[w] >= 0

\* A source sent a positive share to two targets and kept a remainder.
C7_Witness ==
    \E k \in 1..Len(transfers) :
        /\ transfers[k].tx = "mined" /\ transfers[k].round = rounds
        /\ transfers[k].share > 0 /\ Len(transfers[k].targets) = 2
        /\ runeBal[transfers[k].src] > 0

\* One source holding 300000 and three targets; the function returned.
ScenarioDone ==
    /\ distPc = "done"
    /\ Len(sourceWallets) = 1 /\ Len(walletsNeedingRunes) = 3
    /\ Len(transfers) >= 1 /\ transfers[1].balance = 300000

ScenarioRoundOne ==
    /\ rounds = 2 /\ Len(transfers) = 2
    /\ transfers[1].round = 1 /\ transfers[1].src = sourceWallets[1]
    /\ transfers[1].targets = SubSeq(walletsNeedingRunes, 1, 2)
    /\ transfers[1].share = 100000
    /\ transfers[2].round = 2
    /\ transfers[2].targets = SubSeq(walletsNeedingRunes, 3, 3)

\* C8 as stated: two rounds, round 1 sends 100000 to each of two targets from
\* the source, round 2 sends to the last target from a promoted target.
C8_Original ==
    ScenarioDone =>
        /\ ScenarioRoundOne
        /\ transfers[2].src \in Range(transfers[1].targets)

\* C8 (scenario), amended: two rounds, round 1 sends 100000 to each of two
\* targets from the source, and round 2 sends to the last target from the
\* original source again (it is first in the source list), with share
\* floor(100000 / 3) = 33333; the promoted targets send nothing.
C8_Scenario ==
    ScenarioDone =>
        /\ ScenarioRoundOne
        /\ transfers[2].src = sourceWallets[1]
        /\ transfers[2].share = 33333

C8_Witness ==
    ScenarioDone /\ ScenarioRoundOne /\ transfers[2].src = sourceWallets[1]

\* The function is over: it returned or threw.
DistEnded == distPc \in {"done", "thrown"}

\* C9 as stated: when the transfer of one source fails in a round, the other
\* sources' transfers of that round that complete have their targets promoted.
C9_Original ==
    \A k, j \in 1..Len(transfers) :
        ( /\ transfers[k].promise = "rejected"
          /\ transfers[j].round = transfers[k].round
          /\ transfers[j].promise = "fulfilled"
          /\ DistEnded )
        => Range(transfers[j].targets) \subseteq Range(walletsWithRunes)

\* C9 (failure of one source), amended: when the transfer of one source (or
\* its confirmation wait) fails in a round, the round is aborted: the function
\* throws at its Promise.all, no later round starts, and no target popped in
\* that round is promoted, those of the sources whose transfers complete
\* included.
C9_RoundAborted ==
    \A k \in 1..Len(transfers) :
        transfers[k].promise = "rejected" =>
            /\ transfers[k].round = rounds
            /\ distPc \in {"for", "balance", "all", "thrown"}
            /\ \A j \in 1..Len(transfers) :
                  transfers[j].round = rounds =>
                      Range(transfers[j].targets) \cap Range(walletsWithRunes) = {}

\* The function threw because one transfer failed while another transfer of
\* the same round was confirmed.
C9_Witness ==
    /\ distPc = "thrown" /\ distError = "txPromise"
    /\ \E k, j \in 1..Len(transfers) :
          /\ transfers[k].promise = "rejected"
          /\ transfers[j].round = transfers[k].round
          /\ transfers[j].promise = "fulfilled"

\* C10 as stated: once the function has dealt with a failed transfer, each
\* initial target is pending, in flight or promoted, the targets of the failed
\* transfer being pending again.
C10_Original ==
    \A t \in Range(walletsNeedingRunes) :
        \/ t \in Range(remainingWallets)
        \/ t \in Range(walletsWithRunes)
        \/ t \in Range(targetWallets)
        \/ \E k \in TransfersTo(t) :
              /\ transfers[k].round = rounds
              /\ \/ transfers[k].promise # "rejected"
                 \/ distPc \in {"for", "balance", "all"}

\* C10 (targets of a failed transfer), amended: while nothing has failed, each
\* initial target is in exactly one place: pending, in flight or promoted.
\* The targets popped for a transfer that fails are not put back: they are
\* neither in the remaining list nor promoted, and since the function throws
\* without starting another round no later round handles them.
C10_TargetsTracked ==
    /\ NoFailure =>
          \A t \in Range(walletsNeedingRunes) :
              Count(remainingWallets, t) + InFlightCount(t)
                  + Count(walletsWithRunes, t) = 1
    /\ \A k \in 1..Len(transfers) :
          transfers[k].promise = "rejected" =>
              /\ transfers[k].round = rounds
              /\ distPc \notin {"while", "sleep", "done"}
              /\ \A t \in Range(transfers[k].targets) :
                    /\ t \notin Range(remainingWallets)
                    /\ t \notin Range(walletsWithRunes)

\* The function threw on a failed transfer whose targets are in neither list,
\* while other targets are still pending.
C10_Witness ==
    /\ distPc = "thrown" /\ distError = "txPromise"
    /\ Len(remainingWallets) > 0
    /\ \E k \in 1..Len(transfers) :
          /\ transfers[k].promise = "rejected"
          /\ Len(transfers[k].targets) = 2
          /\ Range(transfers[k].targets) \cap
                (Range(remainingWallets) \cup Range(walletsWithRunes)) = {}

\* The transfers of iteration r of the while loop.
TransfersOf(r) == {k \in 1..Len(transfers) : transfers[k].round = r}

\* C29 (round ordering): every wallet of the source set that was a target is
\* named by a transfer that fulfilled with a mined transaction; whenever an
\* iteration of the while loop is running or over, every transfer of the
\* iterations before it is mined and fulfilled; a wallet that sends in an
\* iteration was funded in an earlier one; an iteration starts only from the
\* while condition, which is reached only at the call and after the settling
\* delay, itself entered only when Promise.all fulfilled.
C29_RoundOrdering ==
    /\ [](/\ \A i \in (Len(sourceWallets) + 1)..Len(walletsWithRunes) :
                \E k \in TransfersTo(walletsWithRunes[i]) :
                    /\ transfers[k].promise = "fulfilled"
                    /\ transfers[k].tx = "mined"
          /\ \A k \in 1..Len(transfers) :
                transfers[k].round < rounds =>
                    /\ transfers[k].promise = "fulfilled"
                    /\ transfers[k].tx = "mined"
          /\ \A j \in 1..Len(transfers), k \in 1..Len(transfers) :
                transfers[k].src \in Range(transfers[j].targets) =>
                    transfers[j].round < transfers[k].round)
    /\ [][/\ rounds' # rounds => (distPc = "while" /\ rounds' = rounds + 1)
          /\ (distPc # "while" /\ distPc' = "while") => distPc = "sleep"
          /\ (distPc # "sleep" /\ distPc' = "sleep") =>
                (/\ distPc = "all"
                 /\ \A k \in TransfersOf(rounds) :
                       transfers[k].promise = "fulfilled")]_vars

\* In the second iteration a wallet funded in the first one sends.
C29_Witness ==
    \E j \in 1..Len(transfers), k \in 1..Len(transfers) :
        /\ transfers[j].round = 1
        /\ transfers[k].round = 2
        /\ transfers[k].src \in Range(transfers[j].targets)

\* The sources at the start of iteration r: the initial ones and the targets
\* of the iterations before r.
SourcesAtStart(r) ==
    Len(sourceWallets)
    + Cardinality({t \in Range(walletsNeedingRunes) :
                      \E k \in TransfersTo(t) : transfers[k].round < r})

\* C30 (branching bound): in one iteration no source issues two transfers,
\* every transfer names one or two targets, and the transfers of an iteration
\* are at most as many as the sources at its start.
C30_BranchingBound ==
    /\ \A j \in 1..Len(transfers), k \in 1..Len(transfers) :
          (j # k /\ transfers[j].round = transfers[k].round)
              => transfers[j].src # transfers[k].src
    /\ \A k \in 1..Len(transfers) :
          Len(transfers[k].targets) \in 1..2
    /\ \A r \in 1..rounds :
          Cardinality(TransfersOf(r)) <= SourcesAtStart(r)
    /\ distPc \in {"for", "balance", "all"} =>
          SourcesAtStart(rounds) = Len(walletsWithRunes)

\* The second iteration issued as many transfers as it had sources, three,
\* each to two targets.
C30_Witness ==
    /\ rounds = 2
    /\ Cardinality(TransfersOf(2)) = 3
    /\ SourcesAtStart(2) = 3
    /\ \A k \in TransfersOf(2) : Len(transfers[k].targets) = 2

\* C37 (no target left unfunded): when distributeRunesToWallets has returned
\* normally, every wallet of the initial target list has been promoted into
\* the source set, for any source set including an empty one.
C37_NoTargetUnfunded ==
    distPc = "done" =>
        \A t \in Range(walletsNeedingRunes) : t \in Range(walletsWithRunes)

\* C38 (positive shares): every target that was promoted into the source set
\* received a share greater than 0, whatever the balances of the sources.
C38_PositiveShare ==
    \A t \in Range(walletsNeedingRunes) :
        t \in Range(walletsWithRunes) =>
            \E k \in TransfersTo(t) : transfers[k].share > 0

\* =========================================================================
\* runMultiWalletSwapLoadTest (tests/tps/index.ts; the record-mode and the
\* older variants of it in part_003)
\* =========================================================================

\* Largest number of wallets handed to the load test.
MaxWallets == 21
\* Largest number of wallets handed to the older runner, which has no batches
\* of 20.
MaxSwapWallets == 3
\* Largest number of operations whose result is not the usual one (a success
\* after BaseTimeMs).
MaxUnusual == 1

\* line 143: if (batch >= 20)
BatchSize == 20

\* params.iterations of the older runner
IterationCounts == {1, 2}

\* endTime - startTime of one operation
TimesMs == {0, 10, 40}

BaseTimeMs == 10

\* lines 93-96, 103-107: what performOperationWithWallet returns
Result(w, ok, t) == [wallet |-> w, success |-> ok, timeMs |-> t]

Unusual(allResults) ==
    Cardinality({ k \in 1..Len(Flat(allResults)) :
                    ~ (Flat(allResults)[k].success
                       /\ Flat(allResults)[k].timeMs = BaseTimeMs) })

FinalFlush_Never(b) == FALSE

\* line 170: if (batch !== 0)
FinalFlush(b) == b # 0

NextPromises_Keep(promises) == promises

\* line 147: transactionPromises = []
NextPromises(promises) == << >>

PushBatch_Twice(ops, resolvedBatch) ==
    Append(Append(ops, resolvedBatch), resolvedBatch)

\* line 145: operations.push(resolvedBatch)
PushBatch(ops, resolvedBatch) == Append(ops, resolvedBatch)

\* part_003 line 558: operations.push(...resolvedBatch)
PushSpread(ops, resolvedBatch) == ops \o resolvedBatch

PayloadId_Index(i) == i

\* part_003 line 597: id: i + 1, i the 0-based index of the operation
PayloadId(i) == i + 1

RECURSIVE ProcessResults(_, _)
\* lines 198-223: the two loops over totalResults
ProcessResults(st, rs) ==
    IF rs = << >> THEN st
    ELSE LET r == Head(rs)
             counted ==
                 IF r.success
                 THEN [st EXCEPT !.successfulOperations = @ + 1]
                 ELSE [st EXCEPT !.failedOperations = @ + 1,
                                 !.errors = Append(@, r.wallet)]
         IN  ProcessResults(
                 [counted EXCEPT !.operationTimes = Append(@, r.timeMs),
                                 !.totalTimeMs = @ + r.timeMs,
                                 !.minTimeMs = Min(@, r.timeMs),
                                 !.maxTimeMs = Max(@, r.timeMs)],
                 Tail(rs))

AvgTimeMs_Successful(st) == << st.totalTimeMs, st.successfulOperations >>

\* line 231: stats.totalTimeMs / stats.totalOperations, as a fraction
AvgTimeMs(st) == << st.totalTimeMs, st.totalOperations >>

\* lines 194-249: the statistics returned
Report(st, allResults) ==
    [ProcessResults(st, Flat(allResults)) EXCEPT
        !.avgTimeMs = AvgTimeMs(ProcessResults(st, Flat(allResults)))]

\* The call.  The older runner (part_003 lines 117-137) has no construction
\* phase: its operations are params.iterations batches of all wallets.
LoadInit ==
    /\ NonceIdle
    /\ DistIdle
    /\ PoolIdle
    /\ RetryIdle
    /\ CliIdle
    /\ PrepIdle
    /\ WaitIdle
    /\ ltMode \in {"live", "record", "iterations"}
    /\ wallets \in 0..(IF ltMode = "iterations" THEN MaxSwapWallets ELSE MaxWallets)
    /\ iterations \in (IF ltMode = "iterations" THEN IterationCounts ELSE {0})
    /\ ltPc = IF ltMode = "iterations" THEN "submitLoop" ELSE "loop"
    /\ nextWallet = 1
    /\ batch = 0
    /\ transactionPromises = << >>
    /\ operations = IF ltMode = "iterations"
                    THEN [k \in 1..iterations |-> [i \in 1..wallets |-> i]]
                    ELSE << >>
    /\ opIndex = 1
    /\ results = << >>
    /\ totalResults = << >>
    /\ stats = InitialStats(IF ltMode = "iterations" THEN iterations * wallets
                            ELSE IF ltMode = "live" THEN wallets ELSE 0)
    /\ jsonRpcPayloads = << >>
    /\ build = [w \in 1..wallets |-> "none"]
    /\ sendCount = [w \in 1..wallets |-> 0]
    /\ payloadFile = "none"
    /\ fileContent = << >>

Room_Extra(b) == BatchSize - b + 1

\* lines 142-168: the constructions the for loop still starts before it meets
\* if (batch >= 20), batch being incremented once per construction
Room(b) == BatchSize - b

\* The phase after the constructions.
AfterBuild == IF ltMode = "record" THEN "record" ELSE "submitLoop"

\* lines 142-168 and 170: the for loop runs on, starting one construction per
\* wallet, until it meets a full batch (line 143) or runs out of wallets
LoadBuildLoop ==
    /\ ltPc = "loop"
    /\ LET last == Min(wallets, nextWallet + Room(batch) - 1)
           started == [k \in 1..(last - nextWallet + 1) |-> nextWallet + k - 1]
       IN  /\ transactionPromises' = transactionPromises \o started
           /\ batch' = batch + Len(started)
           /\ nextWallet' = last + 1
           /\ build' = [w \in 1..wallets |->
                            IF nextWallet <= w /\ w <= last THEN "pending"
                            ELSE build[w]]
           /\ ltPc' = IF last < wallets \/ FinalFlush(batch + Len(started))
                      THEN "awaitBuild" ELSE AfterBuild
    /\ UNCHANGED << notLoadVars, ltMode, wallets, iterations, operations,
                    opIndex, results, totalResults, stats, jsonRpcPayloads,
                    sendCount, payloadFile, fileContent >>

\* The promises of one Promise.all settle independently and Promise.all
\* keeps their order, so they are settled in the order of their creation; a
\* promise still pending when the function has thrown is not followed.
Settles(w) ==
    /\ ltPc = "awaitBuild"
    /\ w \in 1..wallets
    /\ build[w] = "pending"
    /\ \A v \in 1..wallets : v < w => build[v] # "pending"
    /\ \A v \in Range(transactionPromises) : build[v] # "rejected"

\* lines 33-72: prepareTransactionsForWallet returns
PrepareTransactionsOk(w) ==
    /\ Settles(w)
    /\ build' = [build EXCEPT ![w] = "fulfilled"]
    /\ UNCHANGED << notLoadVars, ltMode, wallets, iterations, ltPc, nextWallet,
                    batch, transactionPromises, operations, opIndex, results,
                    totalResults, stats, jsonRpcPayloads, sendCount,
                    payloadFile, fileContent >>

\* lines 33-72: prepareTransactionsForWallet throws (it catches nothing)
PrepareTransactionsFail(w) ==
    /\ Settles(w)
    /\ build' = [build EXCEPT ![w] = "rejected"]
    /\ UNCHANGED << notLoadVars, ltMode, wallets, iterations, ltPc, nextWallet,
                    batch, transactionPromises, operations, opIndex, results,
                    totalResults, stats, jsonRpcPayloads, sendCount,
                    payloadFile, fileContent >>

\* lines 144-147 and 171-172: Promise.all(transactionPromises) fulfils
LoadBuildAllFulfilled ==
    /\ ltPc = "awaitBuild"
    /\ \A w \in Range(transactionPromises) : build[w] = "fulfilled"
    /\ operations' = IF ltMode = "record"
                     THEN PushSpread(operations, transactionPromises)
                     ELSE PushBatch(operations, transactionPromises)
    /\ IF nextWallet <= wallets
       THEN /\ batch' = 0
            /\ transactionPromises' = NextPromises(transactionPromises)
            /\ ltPc' = "loop"
       ELSE /\ UNCHANGED << batch, transactionPromises >>
            /\ ltPc' = AfterBuild
    /\ UNCHANGED << notLoadVars, ltMode, wallets, iterations, nextWallet,
                    opIndex, results, totalResults, stats, jsonRpcPayloads,
                    build, sendCount, payloadFile, fileContent >>

\* lines 144 and 171: Promise.all(transactionPromises) rejects, and nothing
\* catches it
LoadBuildRejected ==
    /\ ltPc = "awaitBuild"
    /\ \E w \in Range(transactionPromises) : build[w] = "rejected"
    /\ ltPc' = "thrown"
    /\ UNCHANGED << notLoadVars, ltMode, wallets, iterations, nextWallet, batch,
                    transactionPromises, operations, opIndex, results,
                    totalResults, stats, jsonRpcPayloads, build, sendCount,
                    payloadFile, fileContent >>

\* lines 179-190: the next batch is submitted, every operation calling
\* sendBTCTransactions at once (line 86); lines 194-249 after the last batch
LoadSubmitLoop ==
    /\ ltPc = "submitLoop"
    /\ IF opIndex <= Len(operations)
       THEN /\ ltPc' = "awaitSubmit"
            /\ sendCount' = [w \in 1..wallets |->
                                sendCount[w] + Count(operations[opIndex], w)]
            /\ UNCHANGED stats
       ELSE /\ ltPc' = "returned"
            /\ stats' = Report(stats, totalResults)
            /\ UNCHANGED sendCount
    /\ UNCHANGED << notLoadVars, ltMode, wallets, iterations, nextWallet, batch,
                    transactionPromises, operations, opIndex, results,
                    totalResults, jsonRpcPayloads, build, payloadFile,
                    fileContent >>

\* lines 80-109: performOperationWithWallet returns, in the order of the batch
PerformOperation(ok, t) ==
    /\ ltPc = "awaitSubmit"
    /\ Len(results) < Len(operations[opIndex])
    /\ LET r == Result(operations[opIndex][Len(results) + 1], ok, t)
       IN  /\ Unusual(Append(totalResults, Append(results, r))) <= MaxUnusual
           /\ results' = Append(results, r)
    /\ UNCHANGED << notLoadVars, ltMode, wallets, iterations, ltPc, nextWallet,
                    batch, transactionPromises, operations, opIndex,
                    totalResults, stats, jsonRpcPayloads, build, sendCount,
                    payloadFile, fileContent >>

\* lines 85-96: sendBTCTransactions returned
PerformOperationOk(t) == PerformOperation(TRUE, t)

\* lines 97-108: sendBTCTransactions threw, and the error was caught
PerformOperationFail(t) == PerformOperation(FALSE, t)

\* lines 183-191: Promise.all of the batch fulfils (its promises never reject)
LoadSubmitAllFulfilled ==
    /\ ltPc = "awaitSubmit"
    /\ Len(results) = Len(operations[opIndex])
    /\ totalResults' = Append(totalResults, results)
    /\ results' = << >>
    /\ opIndex' = opIndex + 1
    /\ ltPc' = "submitLoop"
    /\ UNCHANGED << notLoadVars, ltMode, wallets, iterations, nextWallet, batch,
                    transactionPromises, operations, stats, jsonRpcPayloads,
                    build, sendCount, payloadFile, fileContent >>

\* part_003 lines 588-611: the payloads are built, fs.writeFile is called and
\* the function returns
LoadRecord ==
    /\ ltPc = "record"
    /\ jsonRpcPayloads' = [k \in 1..Len(operations) |->
                              [id |-> PayloadId(k - 1), wallet |-> operations[k]]]
    /\ payloadFile' = "pending"
    /\ ltPc' = "returned"
    /\ UNCHANGED << notLoadVars, ltMode, wallets, iterations, nextWallet, batch,
                    transactionPromises, operations, opIndex, results,
                    totalResults, stats, build, sendCount, fileContent >>

\* part_003 lines 603-609: the callback of fs.writeFile, without an error
WriteFileOk ==
    /\ payloadFile = "pending"
    /\ payloadFile' = "written"
    /\ fileContent' = jsonRpcPayloads
    /\ UNCHANGED << notLoadVars, ltMode, wallets, iterations, ltPc, nextWallet,
                    batch, transactionPromises, operations, opIndex, results,
                    totalResults, stats, jsonRpcPayloads, build, sendCount >>

\* part_003 lines 603-606: the callback of fs.writeFile, with an error
WriteFileFail ==
    /\ payloadFile = "pending"
    /\ payloadFile' = "error"
    /\ UNCHANGED << notLoadVars, ltMode, wallets, iterations, ltPc, nextWallet,
                    batch, transactionPromises, operations, opIndex, results,
                    totalResults, stats, jsonRpcPayloads, build, sendCount,
                    fileContent >>

LoadNext ==
    \/ LoadBuildLoop
    \/ \E w \in 1..MaxWallets : PrepareTransactionsOk(w)
    \/ \E w \in 1..MaxWallets : PrepareTransactionsFail(w)
    \/ LoadBuildAllFulfilled
    \/ LoadBuildRejected
    \/ LoadSubmitLoop
    \/ \E t \in TimesMs : PerformOperationOk(t)
    \/ \E t \in TimesMs : PerformOperationFail(t)
    \/ LoadSubmitAllFulfilled
    \/ LoadRecord
    \/ WriteFileOk
    \/ WriteFileFail

LoadSpec == LoadInit /\ [][LoadNext]_vars

\* ------------------------------------------ claims: runMultiWalletSwapLoadTest

RECURSIVE SumTo(_, _)
\* f[1] + ... + f[n]
SumTo(f, n) == IF n = 0 THEN 0 ELSE f[n] + SumTo(f, n - 1)

\* The function returned its statistics.
Reported == ltMode # "record" /\ ltPc = "returned"

\* The completed runs of wallet w: the results performOperationWithWallet
\* returned for it.
RunsOf(w) == { k \in 1..Len(Flat(totalResults)) : Flat(totalResults)[k].wallet = w }

\* C11: whenever the load test returns its statistics, successfulOperations +
\* failedOperations = totalOperations, and every completed run was counted
\* exactly once: the two counters together, and the recorded latencies, are
\* as many as the operations that were run, wallet by wallet.
C11_StatsConsistency ==
    Reported =>
        /\ stats.successfulOperations + stats.failedOperations
              = stats.totalOperations
        /\ stats.successfulOperations + stats.failedOperations
              = SumTo(sendCount, wallets)
        /\ Len(stats.operationTimes) = SumTo(sendCount, wallets)
        /\ \A w \in 1..wallets : Cardinality(RunsOf(w)) = sendCount[w]
        /\ stats.failedOperations
              = Cardinality({ k \in 1..Len(Flat(totalResults)) :
                                ~ Flat(totalResults)[k].success })

\* A report over more than one batch, with a failed operation in it.
C11_Witness ==
    /\ Reported
    /\ ltMode = "live"
    /\ wallets > BatchSize
    /\ stats.failedOperations = 1
    /\ stats.successfulOperations = wallets - 1

\* C12: when the construction of one wallet's transactions throws, the error
\* is not raised out of the load test.
C12_ConstructionIsolated ==
    (ltMode = "live" /\ \E w \in 1..wallets : build[w] = "rejected")
        => ltPc # "thrown"

\* No construction and no submission has failed.
AllSucceeded ==
    /\ \A w \in 1..wallets : build[w] # "rejected"
    /\ \A k \in 1..Len(Flat(totalResults)) : Flat(totalResults)[k].success
    /\ \A k \in 1..Len(results) : results[k].success

\* C13: with n >= 1 wallets, in one batch of 20 or in several, whose
\* constructions and submissions all succeed, the load test does not throw,
\* and the statistics it returns have totalOperations = n,
\* successfulOperations = n, failedOperations = 0, every wallet's
\* transactions having been submitted exactly once.
C13_AllSucceed ==
    (ltMode = "live" /\ wallets >= 1 /\ AllSucceeded) =>
        /\ ltPc # "thrown"
        /\ \A w \in 1..wallets : sendCount[w] <= 1
        /\ ltPc = "returned" =>
              /\ stats.totalOperations = wallets
              /\ stats.successfulOperations = wallets
              /\ stats.failedOperations = 0
              /\ \A w \in 1..wallets : sendCount[w] = 1

\* A report of a run of more than one batch in which nothing failed.
C13_Witness ==
    /\ ltMode = "live"
    /\ ltPc = "returned"
    /\ wallets > BatchSize
    /\ AllSucceeded
    /\ Len(operations) = 2

\* C14: whenever statistics with totalOperations > 0 are returned,
\* minTimeMs <= avgTimeMs <= maxTimeMs, avgTimeMs being the sum of the
\* recorded latencies over totalOperations.
C14_AverageBetween ==
    (Reported /\ stats.totalOperations > 0) =>
        /\ stats.avgTimeMs
              = << SumTo(stats.operationTimes, Len(stats.operationTimes)),
                   stats.totalOperations >>
        /\ stats.minTimeMs * stats.avgTimeMs[2] <= stats.avgTimeMs[1]
        /\ stats.avgTimeMs[1] <= stats.maxTimeMs * stats.avgTimeMs[2]

\* A report whose average lies strictly between the two extremes, one
\* operation having failed.
C14_Witness ==
    /\ Reported
    /\ stats.totalOperations > 1
    /\ stats.failedOperations = 1
    /\ stats.minTimeMs * stats.avgTimeMs[2] < stats.avgTimeMs[1]
    /\ stats.avgTimeMs[1] < stats.maxTimeMs * stats.avgTimeMs[2]

\* C20: in record mode nothing is ever submitted to the backend, and the
\* payload list the function produces holds exactly one payload per wallet,
\* in the order of the wallets, with the ids 1..n, also when n exceeds one
\* batch of 20; the file, once written, holds that list.
C20_RecordMode ==
    ltMode = "record" =>
        /\ \A w \in 1..wallets : sendCount[w] = 0
        /\ totalResults = << >> /\ results = << >>
        /\ payloadFile # "none" =>
              /\ Len(jsonRpcPayloads) = wallets
              /\ \A k \in 1..wallets :
                    jsonRpcPayloads[k] = [id |-> k, wallet |-> k]
        /\ payloadFile = "written" => fileContent = jsonRpcPayloads

\* The payloads of more than one batch of wallets were written.
C20_Witness ==
    /\ ltMode = "record"
    /\ wallets > BatchSize
    /\ payloadFile = "written"
    /\ Len(fileContent) = wallets

\* The wallets whose submission failed, in the order of the results.
FailedWallets ==
    LET failed == SelectSeq(Flat(totalResults), LAMBDA r : ~ r.success)
    IN  [k \in 1..Len(failed) |-> failed[k].wallet]

BatchOf(w) == ((w - 1) \div 20) + 1

\* Wallets a..b in order.
Slice(a, b) == [k \in 1..(b - a + 1) |-> a + k - 1]

\* C31 (bounded construction concurrency): in the runners that construct, at
\* most 20 constructions are pending at once; a construction of a later
\* batch has started only if every construction of the batches before has
\* fulfilled; the promises awaited together, and the batches pushed, are
\* consecutive slices of the wallet list of 20 wallets, the last one possibly
\* shorter.
C31_BoundedConstruction ==
    ltMode \in {"live", "record"} =>
        /\ Cardinality({w \in 1..wallets : build[w] = "pending"}) <= 20
        /\ \A v \in 1..wallets, w \in 1..wallets :
              (BatchOf(v) < BatchOf(w) /\ build[w] # "none")
                  => build[v] = "fulfilled"
        /\ transactionPromises # << >> =>
              /\ Len(transactionPromises) <= 20
              /\ transactionPromises =
                    Slice(transactionPromises[1],
                          transactionPromises[1] + Len(transactionPromises) - 1)
              /\ BatchOf(transactionPromises[1])
                    = BatchOf(transactionPromises[Len(transactionPromises)])
              /\ transactionPromises[1] % 20 = 1
        /\ ltMode = "live" =>
              \A k \in 1..Len(operations) :
                  operations[k] = Slice(20 * (k - 1) + 1, Min(20 * k, wallets))
        /\ ltMode = "record" =>
              operations = Slice(1, Len(operations))

\* The one construction of the second batch is pending after the twenty of
\* the first batch fulfilled.
C31_Witness ==
    /\ ltMode = "live"
    /\ wallets >= 21
    /\ Len(operations) = 1
    /\ Len(operations[1]) = 20
    /\ build[21] = "pending"

\* C32 (live mode batch ordering): in live mode a construction of a later
\* batch has started only if every pipeline of the batches before has been
\* submitted.
C32_LiveBatchOrdering ==
    ltMode = "live" =>
        \A v \in 1..wallets, w \in 1..wallets :
            (BatchOf(v) < BatchOf(w) /\ build[w] # "none")
                => sendCount[v] >= 1

\* C40 (payload file): in record mode, when runMultiWalletSwapLoadTest has
\* returned normally (the run then reports completion), the payload file has
\* been written completely; a write that failed does not let it return
\* normally.
C40_PayloadWritten ==
    (ltMode = "record" /\ ltPc = "returned") => payloadFile = "written"

\* =========================================================================
\* edictRunesForSwap (bitcoin.ts)
\* =========================================================================

\* Largest retry argument.
MaxRetry == 3

\* What an edictRune call ends with: its value, or an error of either kind.
ErrorKinds == {"transient", "fatal"}

\* Calls of edictRune followed in one behaviour: one more than the largest
\* retry argument allows for.
MaxAttempts == MaxRetry + 2

Exhausted_One(r) == r <= 1

\* line 195: if (retry === 0)
Exhausted(r) == r = 0

\* line 200: retry - 1
NextRetry(r) == r - 1

Waited_Not(n) == n

\* line 199: await new Promise(resolve => setTimeout(resolve, 1000)), once
\* before the function calls itself
Waited(n) == n + 1

\* line 178: the call; a retry argument below 0 is a number too
RetryInit ==
    /\ NonceIdle
    /\ DistIdle
    /\ LoadIdle
    /\ PoolIdle
    /\ CliIdle
    /\ PrepIdle
    /\ WaitIdle
    /\ retryBudget \in -1..MaxRetry
    /\ retry = retryBudget
    /\ retryPc = "try"
    /\ attempts = << >>
    /\ slept = 0
    /\ thrownError = 0

\* lines 179-193: edictRune returns and every pending call returns its value
EdictRuneOk ==
    /\ retryPc = "try"
    /\ Len(attempts) < MaxAttempts
    /\ attempts' = Append(attempts, "ok")
    /\ retryPc' = "returned"
    /\ UNCHANGED << notRetryVars, retryBudget, retry, slept, thrownError >>

\* lines 194-198: edictRune throws; the error is wrapped and thrown through
\* every pending call (line 196, a throw inside catch is not caught again),
\* or the wait of line 199 begins
EdictRuneFail(kind) ==
    /\ retryPc = "try"
    /\ Len(attempts) < MaxAttempts
    /\ attempts' = Append(attempts, kind)
    /\ IF Exhausted(retry)
       THEN /\ retryPc' = "thrown"
            /\ thrownError' = Len(attempts) + 1
       ELSE /\ retryPc' = "sleep"
            /\ UNCHANGED thrownError
    /\ UNCHANGED << notRetryVars, retryBudget, retry, slept >>

\* lines 199-200: the second is over and the function calls itself
RetryAgain ==
    /\ retryPc = "sleep"
    /\ slept' = Waited(slept)
    /\ retry' = NextRetry(retry)
    /\ retryPc' = "try"
    /\ UNCHANGED << notRetryVars, retryBudget, attempts, thrownError >>

RetryNext ==
    \/ EdictRuneOk
    \/ \E kind \in ErrorKinds : EdictRuneFail(kind)
    \/ RetryAgain

RetrySpec == RetryInit /\ [][RetryNext]_vars

\* ------------------------------------------------- claims: edictRunesForSwap

\* Every call of edictRune made so far has thrown.
AllFailed == \A k \in 1..Len(attempts) : attempts[k] \in ErrorKinds

\* C18: with a retry argument r >= 0, edictRunesForSwap never makes more than
\* r + 1 attempts; while every attempt fails it keeps trying up to the
\* (r + 1)-th, and it throws exactly then, the error thrown wrapping the error
\* of that last attempt.
C18_RetryExhaustion ==
    retryBudget >= 0 =>
        /\ Len(attempts) <= retryBudget + 1
        /\ slept <= retryBudget
        /\ retryPc = "thrown" <=>
              (AllFailed /\ Len(attempts) = retryBudget + 1)
        /\ retryPc = "thrown" => thrownError = retryBudget + 1
        /\ (AllFailed /\ Len(attempts) <= retryBudget)
              => retryPc \in {"try", "sleep"}

\* The retries of a call with a budget of at least two were used up.
C18_Witness ==
    /\ retryBudget >= 2
    /\ retryPc = "thrown"
    /\ Len(attempts) = retryBudget + 1
    /\ slept = retryBudget

\* C19: an attempt that fails with a fatal error is the last one: the
\* function has thrown, without waiting and without another attempt.
C19_FatalNotRetried ==
    \A k \in 1..Len(attempts) :
        attempts[k] = "fatal" =>
            /\ k = Len(attempts)
            /\ retryPc = "thrown"

\* C35 (retry stops at the first success): the attempts are made one at a
\* time; a successful attempt is the last one and the function has returned
\* with it; the function returns only after a successful attempt; every
\* failed attempt that was followed by another was followed by one wait of a
\* second first, so the waits are one fewer than the attempts once the next
\* attempt has begun or the function has ended.
C35_StopsAtSuccess ==
    /\ \A k \in 1..Len(attempts) :
          attempts[k] = "ok" => (k = Len(attempts) /\ retryPc = "returned")
    /\ retryPc = "returned" =>
          (attempts # << >> /\ attempts[Len(attempts)] = "ok")
    /\ retryPc = "try" => slept = Len(attempts)
    /\ retryPc \in {"sleep", "returned", "thrown"} => slept = Len(attempts) - 1

\* The third attempt succeeded after two failures and two waits.
C35_Witness ==
    /\ retryPc = "returned"
    /\ Len(attempts) = 3
    /\ attempts[1] \in ErrorKinds /\ attempts[2] \in ErrorKinds
    /\ slept = 2

\* =========================================================================
\* createMultipleWallets and the mnemonic store (utils)
\* =========================================================================

\* Calls of createMultipleWallets in one behaviour.
MaxPoolCalls == 2
\* Largest count asked for.
MaxCount == 2

\* line 138: "fixed deterministic mnemonic for first wallet always the samq"
FixedMnemonic == 0

\* lines 113-123: generateRandomMnemonic, 16 random bytes
RandomMnemonics == {1, 2}

\* What wallet_mnemonics.json can hold at the start: nothing, a list of
\* mnemonics, text that is not JSON, or the JSON of something that is not a
\* list (null; an object or a number, which have no length).
InitialStores ==
    { Parsed("absent", << >>), Parsed("unparseable", << >>),
      Parsed("null", << >>), Parsed("object", << >>) }
    \cup { Parsed("list", l) :
             l \in { << >>, << FixedMnemonic >>, << FixedMnemonic, 1 >>,
                     << 2, 1 >> } }

\* How fs.writeFileSync can end: written; thrown with the file untouched;
\* thrown after the file was truncated.
WriteOutcomes == {"written", "failed", "torn"}

\* lines 20-30: readStoredMnemonics; ioError: readFileSync throws
ReadStoredMnemonics(file, ioError) ==
    IF file.kind = "absent" \/ ioError \/ file.kind = "unparseable"
    THEN Parsed("list", << >>)
    ELSE file

Padded_Insert(read, count, fresh) ==
    IF read.kind # "list" THEN read
    ELSE LET base == IF read.list = << >> \/ read.list[1] # FixedMnemonic
                     THEN << FixedMnemonic >> \o read.list
                     ELSE read.list
         IN  Parsed("list", base \o SubSeq(fresh, 1, Max(0, count - Len(base))))

\* lines 137-149: the fixed mnemonic for an empty list, then random ones up
\* to count; a value without a length is left as it is
Padded(read, count, fresh) ==
    IF read.kind # "list" THEN read
    ELSE LET base == IF Len(read.list) = 0 THEN << FixedMnemonic >>
                     ELSE read.list
         IN  Parsed("list", base \o SubSeq(fresh, 1, Max(0, count - Len(base))))

\* lines 36-43: storeMnemonics; the error of a failed write is only logged
StoreMnemonics(file, mnemonics, outcome) ==
    CASE outcome = "written" -> mnemonics
      [] outcome = "failed" -> file
      [] outcome = "torn" -> Parsed("unparseable", << >>)

\* line 156: storedMnemonics[i]; an object has no such entry
MnemonicAt(mnemonics, i) ==
    IF mnemonics.kind = "list" THEN mnemonics.list[i] ELSE Undefined

\* lines 188-194: a wallet, as the mnemonic it was derived from and whether
\* connect gave it an ordinals account
Wallet(mnemonic, ordinalsAccount) ==
    [mnemonic |-> mnemonic, ordinals |-> ordinalsAccount]

Rejects_Never(ordinalsAccount) == FALSE

\* line 180: if (!ordinalsAccount)
Rejects(ordinalsAccount) == ~ ordinalsAccount

\* The store at the start, and no call yet.
PoolStart(calls) ==
    /\ NonceIdle
    /\ DistIdle
    /\ LoadIdle
    /\ RetryIdle
    /\ CliIdle
    /\ PrepIdle
    /\ WaitIdle
    /\ storeFile \in InitialStores
    /\ persisted = IF storeFile.kind = "list" THEN << storeFile.list >> ELSE << >>
    /\ poolPc = "idle"
    /\ poolCount = 0
    /\ storedMnemonics = Parsed("list", << >>)
    /\ poolIndex = 1
    /\ poolWallets = << >>
    /\ poolError = "none"
    /\ poolCallsLeft = calls
    /\ poolCalls = << >>

\* A caller that calls createMultipleWallets repeatedly.
PoolInit == PoolStart(MaxPoolCalls)

\* A caller that calls createMultipleWallets once, as runTest does (line 307
\* of tests/tps/index.ts).
PoolOnceInit == PoolStart(1)

\* The call in progress ends.
Finished(outcome, error, ws) ==
    [poolCalls EXCEPT ![Len(poolCalls)] =
        [@ EXCEPT !.outcome = outcome, !.error = error, !.wallets = ws]]

\* lines 130-172: the call, up to the first await connect.  Reading null.length
\* (line 137) throws; mnemonicToSeedSync of an entry that is not there (line
\* 159) is the library's to decide: it throws or it derives a key.
CreateMultipleWallets(count, ioError, fresh, outcome, throws) ==
    /\ poolPc \in {"idle", "returned", "thrown"}
    /\ poolCallsLeft > 0
    /\ poolCallsLeft' = poolCallsLeft - 1
    /\ ioError => storeFile.kind # "absent"
    /\ LET read == ReadStoredMnemonics(storeFile, ioError)
           padded == Padded(read, count, fresh)
           written == StoreMnemonics(storeFile, padded, outcome)
           call == [count |-> count, store |-> storeFile, ioError |-> ioError,
                    write |-> outcome,
                    mnemonics |-> IF read.kind = "null" THEN read ELSE padded,
                    outcome |-> "running",
                    error |-> "none", wallets |-> << >>]
           ended(o, e) == Append(poolCalls,
                                 [call EXCEPT !.outcome = o, !.error = e])
       IN  /\ poolCount' = count
           /\ poolIndex' = 1
           /\ poolWallets' = << >>
           /\ IF read.kind = "null"
              THEN /\ outcome = "failed"
                   /\ ~ throws
                   /\ storedMnemonics' = read
                   /\ poolPc' = "thrown"
                   /\ poolError' = "store"
                   /\ poolCalls' = ended("thrown", "store")
                   /\ UNCHANGED << storeFile, persisted >>
              ELSE /\ storedMnemonics' = padded
                   /\ storeFile' = written
                   /\ persisted' = IF outcome = "written" /\ padded.kind = "list"
                                   THEN Append(persisted, padded.list)
                                   ELSE persisted
                   /\ throws => (padded.kind = "object" /\ count > 0)
                   /\ IF count = 0
                      THEN /\ poolPc' = "returned"
                           /\ poolError' = "none"
                           /\ poolCalls' = ended("returned", "none")
                      ELSE IF throws
                      THEN /\ poolPc' = "thrown"
                           /\ poolError' = "store"
                           /\ poolCalls' = ended("thrown", "store")
                      ELSE /\ poolPc' = "connect"
                           /\ poolError' = "none"
                           /\ poolCalls' = Append(poolCalls, call)
    /\ UNCHANGED << notPoolVars >>

\* lines 172-200: connect returned and the ordinals account is there; the
\* wallet is pushed and the loop goes on (lines 155-170) or the call returns
ConnectOk(ordinalsAccount, throws) ==
    /\ poolPc = "connect"
    /\ ~ Rejects(ordinalsAccount)
    /\ throws => (storedMnemonics.kind = "object" /\ poolIndex < poolCount)
    /\ LET ws == Append(poolWallets,
                        Wallet(MnemonicAt(storedMnemonics, poolIndex),
                               ordinalsAccount))
       IN  /\ poolWallets' = ws
           /\ IF poolIndex = poolCount
              THEN /\ poolPc' = "returned"
                   /\ poolCalls' = Finished("returned", "none", ws)
                   /\ UNCHANGED << poolIndex, poolError >>
              ELSE IF throws
              THEN /\ poolPc' = "thrown"
                   /\ poolError' = "store"
                   /\ poolCalls' = Finished("thrown", "store", ws)
                   /\ UNCHANGED poolIndex
              ELSE /\ poolIndex' = poolIndex + 1
                   /\ UNCHANGED << poolPc, poolError, poolCalls >>
    /\ UNCHANGED << notPoolVars, storeFile, persisted, poolCount,
                    poolCallsLeft, storedMnemonics >>

\* line 172: connect throws
ConnectFail ==
    /\ poolPc = "connect"
    /\ poolPc' = "thrown"
    /\ poolError' = "connect"
    /\ poolCalls' = Finished("thrown", "connect", poolWallets)
    /\ UNCHANGED << notPoolVars, storeFile, persisted, poolCount,
                    poolCallsLeft, storedMnemonics, poolIndex, poolWallets >>

\* lines 176-182: connect returned without an ordinals account
NoOrdinalsAccount ==
    /\ poolPc = "connect"
    /\ Rejects(FALSE)
    /\ poolPc' = "thrown"
    /\ poolError' = "ordinals"
    /\ poolCalls' = Finished("thrown", "ordinals", poolWallets)
    /\ UNCHANGED << notPoolVars, storeFile, persisted, poolCount,
                    poolCallsLeft, storedMnemonics, poolIndex, poolWallets >>

PoolNext ==
    \/ \E count \in 0..MaxCount, ioError \in BOOLEAN,
          fresh \in [1..MaxCount -> RandomMnemonics],
          outcome \in WriteOutcomes, throws \in BOOLEAN :
            CreateMultipleWallets(count, ioError, fresh, outcome, throws)
    \/ \E ordinalsAccount \in BOOLEAN, throws \in BOOLEAN :
            ConnectOk(ordinalsAccount, throws)
    \/ ConnectFail
    \/ NoOrdinalsAccount

PoolSpec == PoolInit /\ [][PoolNext]_vars

PoolOnceSpec == PoolOnceInit /\ [][PoolNext]_vars

\* ---------------------------------------------- claims: createMultipleWallets

IsPrefix(s, t) == Len(s) <= Len(t) /\ SubSeq(t, 1, Len(s)) = s

\* C15: of two calls that return, the later one asking for at least as many
\* wallets, the later returns the wallets of the earlier as its first ones
\* (createMultipleWallets(8) after createMultipleWallets(5) returns the same
\* first 5).
C15_IdempotentGrowth ==
    \A j \in 1..Len(poolCalls), k \in 1..Len(poolCalls) :
        (/\ j < k
         /\ poolCalls[j].outcome = "returned"
         /\ poolCalls[k].outcome = "returned"
         /\ poolCalls[j].count <= poolCalls[k].count)
            => IsPrefix(poolCalls[j].wallets, poolCalls[k].wallets)

\* C16: every seed list written to the store has every list the store held
\* before as a prefix, also in runs in which reading the store fails, and
\* the store goes on holding the last list written.
C16_AppendOnly ==
    /\ \A j \in 1..Len(persisted), k \in 1..Len(persisted) :
          j < k => IsPrefix(persisted[j], persisted[k])
    /\ persisted # << >> => storeFile = Parsed("list", persisted[Len(persisted)])

\* The store exists but cannot be read or does not hold a list of seeds.
Corrupt(call) ==
    \/ call.store.kind \in {"unparseable", "null", "object"}
    \/ call.store.kind = "list" /\ call.ioError

\* C17: a call that finds the store unreadable or not a list of seeds
\* raises no error caused by the store, and when it returns it returns count
\* wallets, those of an empty store: the fixed one first.
C17_CorruptStoreNotFatal ==
    \A k \in 1..Len(poolCalls) :
        Corrupt(poolCalls[k]) =>
            /\ poolCalls[k].error # "store"
            /\ poolCalls[k].outcome = "returned" =>
                  /\ Len(poolCalls[k].wallets) = poolCalls[k].count
                  /\ poolCalls[k].count > 0 =>
                        poolCalls[k].wallets[1].mnemonic = FixedMnemonic

\* C22: a call of createMultipleWallets(n) that returns, returns exactly n
\* wallets, the i-th derived from the i-th seed of the list the call stored,
\* each with an ordinals account; no wallet without an ordinals account is
\* ever put in the pool (the call throws instead).
C22_ExactPool ==
    /\ \A i \in 1..Len(poolWallets) : poolWallets[i].ordinals
    /\ \A k \in 1..Len(poolCalls) :
          poolCalls[k].outcome = "returned" =>
              /\ Len(poolCalls[k].wallets) = poolCalls[k].count
              /\ \A i \in 1..poolCalls[k].count :
                    /\ poolCalls[k].wallets[i].ordinals
                    /\ poolCalls[k].wallets[i].mnemonic
                          = MnemonicAt(poolCalls[k].mnemonics, i)

\* A call for two wallets or more returned them.
C22_Witness ==
    \E k \in 1..Len(poolCalls) :
        /\ poolCalls[k].outcome = "returned"
        /\ poolCalls[k].count >= 2
        /\ poolCalls[k].mnemonics.kind = "list"
        /\ Len(poolCalls[k].wallets) >= 2

\* C25 (persist before derive): whenever a wallet has been derived from the
\* i-th seed of the call's list, wallet_mnemonics.json holds a list with that
\* seed at position i, also when the write to the store failed.
C25_PersistBeforeDerive ==
    LET derived == IF poolPc = "connect" THEN poolIndex ELSE Len(poolWallets)
    IN  \A i \in 1..derived :
            /\ storeFile.kind = "list"
            /\ i <= Len(storeFile.list)
            /\ storeFile.list[i] = MnemonicAt(storedMnemonics, i)

\* The seed list a call uses when it found no seed: no file, an empty list, or
\* a file that could not be read or parsed.
FoundEmpty(call) ==
    ReadStoredMnemonics(call.store, call.ioError) = Parsed("list", << >>)

\* C26 (fixed first seed): a call that found no seed uses the fixed mnemonic
\* followed by count - 1 generated seeds (none for count 0 or 1); a call that
\* found a list of at least one seed uses a list that starts with the whole
\* stored list, so its first seed stays first and the fixed mnemonic is not
\* inserted.
C26_FixedFirstSeed ==
    \A k \in 1..Len(poolCalls) :
        LET call == poolCalls[k]
            used == call.mnemonics.list
        IN  /\ FoundEmpty(call) =>
                  /\ call.mnemonics.kind = "list"
                  /\ Len(used) = Max(1, call.count)
                  /\ used[1] = FixedMnemonic
                  /\ \A i \in 2..Len(used) : used[i] \in RandomMnemonics
            /\ (/\ call.store.kind = "list"
                /\ ~ call.ioError
                /\ Len(call.store.list) >= 1) =>
                  /\ call.mnemonics.kind = "list"
                  /\ IsPrefix(call.store.list, used)
                  /\ Len(used) = Max(Len(call.store.list), call.count)

\* A call that found no store asked for two wallets or more and returned them.
C26_Witness ==
    \E k \in 1..Len(poolCalls) :
        /\ poolCalls[k].store.kind = "absent"
        /\ poolCalls[k].count >= 2
        /\ poolCalls[k].outcome = "returned"

\* =========================================================================
\* main and runTest (tests/tps/index.ts)
\* =========================================================================

\* Largest --txCount.
MaxTxCount == 3

\* line 312: regularTransferAmount, in satoshis
RegularTransferAmount == 1000000

\* getWalletBalance of a pool wallet: nothing, just below and just at half of
\* regularTransferAmount, and the full amount
Balances == {0, 499999, 500000, 1000000}

\* getWalletBalance of the base wallet
BaseBalances == {0, 5000000}

\* line 323: walletBalance < regularTransferAmount / 2
NeedsFunding(walletBalance) == 2 * walletBalance < RegularTransferAmount

\* line 324: regularTransferAmount - walletBalance
TransferAmount(walletBalance) == RegularTransferAmount - walletBalance

ChecksBalances_Always(n) == TRUE

\* line 314: if (wallets.length > 1)
ChecksBalances(n) == n > 1

Awaited_Not(transfers_) == TRUE

\* line 338: await; the loop goes on when the call before has returned
Awaited(transfers_) ==
    \A k \in 1..Len(transfers_) : transfers_[k].state = "done"

\* lines 458-464: main().then(...).catch(...) logs either outcome and sets no
\* exit code, so the process ends with 0
ExitCode(ended) == 0

\* lines 256-284: main parsed --txCount and called runTest
CliInit ==
    /\ NonceIdle
    /\ DistIdle
    /\ LoadIdle
    /\ PoolIdle
    /\ RetryIdle
    /\ PrepIdle
    /\ WaitIdle
    /\ cliPc = "connect"
    /\ configTxCount \in 0..MaxTxCount
    /\ utxoBalance \in [1..configTxCount -> Balances]
    /\ cliWallets = 0
    /\ checkIndex = 1
    /\ walletBalances = << >>
    /\ walletsToFund = << >>
    /\ transferAmounts = << >>
    /\ fundIndex = 1
    /\ cliError = "none"
    /\ topUps = << >>
    /\ exitCode = Undefined

\* lines 441-454: the catch of runTest logs and throws again
Thrown(error) ==
    /\ cliPc' = "thrown"
    /\ cliError' = error

\* lines 286-289: connect of the base wallet
CliConnect(ok) ==
    /\ cliPc = "connect"
    /\ IF ok THEN cliPc' = "baseBalance" /\ UNCHANGED cliError
       ELSE Thrown("backend")
    /\ UNCHANGED << notCliVars, configTxCount, utxoBalance, cliWallets, checkIndex,
                    walletBalances, walletsToFund, transferAmounts, fundIndex,
                    topUps, exitCode >>

\* lines 292-302: the balance of the base wallet; with 0 runTest returns
GetBaseBalance(walletBalance) ==
    /\ cliPc = "baseBalance"
    /\ IF walletBalance = 0
       THEN /\ cliPc' = "returned"
            /\ cliError' = "emptyFunding"
       ELSE /\ cliPc' = "createWallets"
            /\ UNCHANGED cliError
    /\ UNCHANGED << notCliVars, configTxCount, utxoBalance, cliWallets, checkIndex,
                    walletBalances, walletsToFund, transferAmounts, fundIndex,
                    topUps, exitCode >>

\* lines 305-314: createMultipleWallets returns config.txCount wallets, or
\* throws (no ordinals account, connect)
CreateWallets(ok) ==
    /\ cliPc = "createWallets"
    /\ IF ok
       THEN /\ cliWallets' = configTxCount
            /\ cliPc' = IF ChecksBalances(configTxCount) THEN "checkBalances"
                        ELSE "createRunes"
            /\ UNCHANGED cliError
       ELSE /\ Thrown("registration")
            /\ UNCHANGED cliWallets
    /\ UNCHANGED << notCliVars, configTxCount, utxoBalance, checkIndex, walletBalances,
                    walletsToFund, transferAmounts, fundIndex, topUps,
                    exitCode >>

\* lines 319-342: the balance of wallet checkIndex was read; after the last
\* wallet the transfer loop begins, if there is anything to transfer
CheckBalance(walletBalance) ==
    /\ cliPc = "checkBalances"
    /\ walletBalance = utxoBalance[checkIndex]
    /\ walletBalances' = Append(walletBalances, walletBalance)
    /\ IF NeedsFunding(walletBalance)
       THEN /\ walletsToFund' = Append(walletsToFund, checkIndex)
            /\ transferAmounts' =
                  Append(transferAmounts, TransferAmount(walletBalance))
       ELSE UNCHANGED << walletsToFund, transferAmounts >>
    /\ checkIndex' = checkIndex + 1
    /\ cliPc' = IF checkIndex < cliWallets THEN "checkBalances"
                ELSE IF Len(walletsToFund') > 0 THEN "transfer"
                ELSE "createRunes"
    /\ UNCHANGED << notCliVars, configTxCount, utxoBalance, cliWallets, fundIndex, cliError,
                    topUps, exitCode >>

\* line 320: getWalletBalance throws
CheckBalanceFail ==
    /\ cliPc = "checkBalances"
    /\ Thrown("backend")
    /\ UNCHANGED << notCliVars, configTxCount, utxoBalance, cliWallets, checkIndex,
                    walletBalances, walletsToFund, transferAmounts, fundIndex,
                    topUps, exitCode >>

\* lines 337-339 and bitcoin.ts lines 131-146: the next transferBTC from the
\* base wallet is called, with the one receiver and its amount
IssueTopUp ==
    /\ cliPc = "transfer"
    /\ fundIndex <= Len(walletsToFund)
    /\ Awaited(topUps)
    /\ topUps' = Append(topUps, [receiver |-> walletsToFund[fundIndex],
                                 amount |-> transferAmounts[fundIndex],
                                 state |-> "inflight"])
    /\ fundIndex' = fundIndex + 1
    /\ UNCHANGED << notCliVars, cliPc, configTxCount, utxoBalance, cliWallets, checkIndex,
                    walletBalances, walletsToFund, transferAmounts, cliError,
                    exitCode >>

\* bitcoin.ts lines 142-149: transferBTC returns
TopUpOk(k) ==
    /\ k \in 1..Len(topUps)
    /\ topUps[k].state = "inflight"
    /\ topUps' = [topUps EXCEPT ![k].state = "done"]
    /\ UNCHANGED << notCliVars, cliPc, configTxCount, utxoBalance, cliWallets, checkIndex,
                    walletBalances, walletsToFund, transferAmounts, fundIndex,
                    cliError, exitCode >>

\* bitcoin.ts line 142: transferBTC throws, and so does runTest
TopUpFail(k) ==
    /\ k \in 1..Len(topUps)
    /\ topUps[k].state = "inflight"
    /\ topUps' = [topUps EXCEPT ![k].state = "failed"]
    /\ IF cliPc = "transfer" THEN Thrown("backend")
       ELSE UNCHANGED << cliPc, cliError >>
    /\ UNCHANGED << notCliVars, configTxCount, utxoBalance, cliWallets, checkIndex,
                    walletBalances, walletsToFund, transferAmounts, fundIndex,
                    exitCode >>

\* lines 337-345: the transfer loop is over
TopUpsDone ==
    /\ cliPc = "transfer"
    /\ fundIndex > Len(walletsToFund)
    /\ Awaited(topUps)
    /\ cliPc' = "createRunes"
    /\ UNCHANGED << notCliVars, configTxCount, utxoBalance, cliWallets, checkIndex,
                    walletBalances, walletsToFund, transferAmounts, fundIndex,
                    cliError, topUps, exitCode >>

\* The calls that follow, each of which returns or throws.
NextStage(stage) ==
    CASE stage = "createRunes" -> "distribute"
      [] stage = "distribute" -> "loadTest"
      [] stage = "loadTest" -> "completed"

\* lines 352-440: createRunesAndEdictsForWallets and the liquidity of the
\* first wallet; distributeRunesToWallets; runMultiWalletSwapLoadTest, which
\* throws when edictRunesForSwap has used up its retries
StageOk ==
    /\ cliPc \in {"createRunes", "distribute", "loadTest"}
    /\ cliPc' = NextStage(cliPc)
    /\ UNCHANGED << notCliVars, configTxCount, utxoBalance, cliWallets, checkIndex,
                    walletBalances, walletsToFund, transferAmounts, fundIndex,
                    cliError, topUps, exitCode >>

StageFail(error) ==
    /\ cliPc \in {"createRunes", "distribute", "loadTest"}
    /\ error = "retriesExhausted" => cliPc = "loadTest"
    /\ Thrown(error)
    /\ UNCHANGED << notCliVars, configTxCount, utxoBalance, cliWallets, checkIndex,
                    walletBalances, walletsToFund, transferAmounts, fundIndex,
                    topUps, exitCode >>

\* lines 458-464: the promise of main settled and the process ends
ProcessExit ==
    /\ cliPc \in {"completed", "returned", "thrown"}
    /\ exitCode = Undefined
    /\ \A k \in 1..Len(topUps) : topUps[k].state # "inflight"
    /\ exitCode' = ExitCode(cliPc)
    /\ UNCHANGED << notCliVars, cliPc, configTxCount, utxoBalance, cliWallets, checkIndex,
                    walletBalances, walletsToFund, transferAmounts, fundIndex,
                    cliError, topUps >>

CliNext ==
    \/ \E ok \in BOOLEAN : CliConnect(ok)
    \/ \E b \in BaseBalances : GetBaseBalance(b)
    \/ \E ok \in BOOLEAN : CreateWallets(ok)
    \/ \E b \in Balances : CheckBalance(b)
    \/ CheckBalanceFail
    \/ IssueTopUp
    \/ \E k \in 1..MaxTxCount : TopUpOk(k)
    \/ \E k \in 1..MaxTxCount : TopUpFail(k)
    \/ TopUpsDone
    \/ StageOk
    \/ \E error \in {"backend", "retriesExhausted"} : StageFail(error)
    \/ ProcessExit

CliSpec == CliInit /\ [][CliNext]_vars

\* ------------------------------------------------- claims: main and runTest

\* C21: the process ends with exit code 0 only when runTest ran to
\* completion, and with another exit code after a fatal error: an empty base
\* wallet, a wallet that could not be registered, retries used up.
C21_ExitStatus ==
    exitCode # Undefined =>
        /\ exitCode = 0 => cliPc = "completed"
        /\ cliError \in {"emptyFunding", "registration", "retriesExhausted"}
              => exitCode # 0

\* The top-up stage of a run is over and did not throw.
ToppedUp ==
    cliPc \in {"createRunes", "distribute", "loadTest", "completed"}

\* The transfers issued to pool wallet i.
TopUpsTo(i) == {k \in 1..Len(topUps) : topUps[k].receiver = i}

\* C27 (top-up rule): once the top-up stage is over, for a pool of any size
\* n >= 1, every wallet whose balance was below half of regularTransferAmount
\* got exactly one transfer, of regularTransferAmount minus its balance, and
\* every other wallet got none.
C27_TopUpRule ==
    ToppedUp =>
        \A i \in 1..cliWallets :
            IF 2 * utxoBalance[i] < RegularTransferAmount
            THEN /\ Cardinality(TopUpsTo(i)) = 1
                 /\ \A k \in TopUpsTo(i) :
                       topUps[k].amount = RegularTransferAmount - utxoBalance[i]
            ELSE TopUpsTo(i) = {}

\* C28 (sequential top-ups): every transfer but the last one issued has
\* completed, so no two are in flight at once and none is issued after one
\* that failed; after a failure runTest has thrown.
C28_SequentialTopUps ==
    /\ \A k \in 1..(Len(topUps) - 1) : topUps[k].state = "done"
    /\ Cardinality({k \in 1..Len(topUps) : topUps[k].state = "inflight"}) <= 1
    /\ \A k \in 1..Len(topUps) :
          topUps[k].state = "failed" => cliPc = "thrown"

\* The second transfer failed while a third wallet was still to be funded.
C28_Witness ==
    /\ Len(topUps) = 2
    /\ topUps[1].state = "done"
    /\ topUps[2].state = "failed"
    /\ fundIndex <= Len(walletsToFund)
    /\ exitCode # Undefined

\* =========================================================================
\* prepareTransactionsForWallet and performOperationWithWallet for the
\* wallets of one batch (tests/tps/index.ts; the record-mode variant in
\* part_003); wallet w has the EVM address w
\* =========================================================================

\* line 47: for (let i = 0; i < 4; i++)
SwapCount == 4

Repeat(kind, n) == [k \in 1..n |-> kind]

StepOrder_SwapsFirst(mode) ==
    Repeat("swap", SwapCount) \o << "complete", "funding" >>
    \o (IF mode = "record" THEN Repeat("sign", SwapCount + 1) ELSE << >>)

\* lines 33-72: edictRunesForSwap, four times swapETHForTokens, completeTx;
\* part_003 lines 467-508: four times swapETHForTokens, completeTx,
\* finalizeBTCTransaction, signIntention for each of the five intentions
StepOrder(mode) ==
    IF mode = "live"
    THEN << "funding" >> \o Repeat("swap", SwapCount) \o << "complete" >>
    ELSE Repeat("swap", SwapCount) \o << "complete", "funding" >>
         \o Repeat("sign", SwapCount + 1)

\* evm.ts line 153: swapETHForTokens of the live runner calls getNonce; the
\* intentions of the record-mode runner (evm.ts lines 327-360) carry no nonce
UsesNonce(mode, kind) == mode = "live" /\ kind = "swap"

\* lines 86-89: what sendBTCTransactions is given: the signed transactions
\* (txs) and the funding transaction (txHex)
Payload(steps) ==
    [txs |-> SelectSeq(steps, LAMBDA k : k # "funding"),
     btc |-> Len(SelectSeq(steps, LAMBDA k : k = "funding"))]

\* The step the pipeline of wallet w is at.
StepKind(w) == StepOrder(prepMode)[pipeStep[w] + 1]

\* What the pipeline awaits after `finished` steps.
PhaseAfter(finished) ==
    IF finished = Len(StepOrder(prepMode)) THEN "built"
    ELSE IF UsesNonce(prepMode, StepOrder(prepMode)[finished + 1])
         THEN "acquire" ELSE "run"

\* The variables of getNonce that a pipeline never touches.
callVars == << txCount, callPc, callAddr, callSeen, callResult, txCount0,
               backendSteps, issued, afterFailure >>

\* lines 142-168: the for loop has called prepareTransactionsForWallet for
\* every wallet of the batch, and each call runs up to its first await.  No
\* transaction of the batch is sent before its constructions are over, so the
\* backend's counts stay as they are (NonceSpec has the counts rising).
PrepInit ==
    /\ DistIdle
    /\ LoadIdle
    /\ PoolIdle
    /\ RetryIdle
    /\ CliIdle
    /\ WaitIdle
    /\ txCount \in [Accounts -> InitCounts]
    /\ txCount0 = txCount
    /\ noncesByAddress = [a \in Accounts |-> Undefined]
    /\ pendingNoncesByAddress = [a \in Accounts |-> Undefined]
    /\ nonceMutex = NoCall
    /\ callPc = [c \in Calls |-> "idle"]
    /\ callAddr = [c \in Calls |-> 1]
    /\ callSeen = [c \in Calls |-> Undefined]
    /\ callResult = [c \in Calls |-> Undefined]
    /\ backendSteps = 0
    /\ issued = [a \in Accounts |-> << >>]
    /\ afterFailure = [c \in Calls |-> FALSE]
    /\ prepMode \in {"live", "record"}
    /\ prepPc = "awaitBuild"
    /\ pipeStep = [w \in Accounts |-> 0]
    /\ pipePhase = [w \in Accounts |-> "run"]
    /\ built = [w \in Accounts |-> << >>]
    /\ allocated = [w \in Accounts |-> << >>]
    /\ sent = [w \in Accounts |-> << >>]

\* The step of wallet w is finished and the next one is called.
StepDone(w) ==
    /\ built' = [built EXCEPT ![w] = Append(@, StepKind(w))]
    /\ pipeStep' = [pipeStep EXCEPT ![w] = @ + 1]
    /\ pipePhase' = [pipePhase EXCEPT ![w] = PhaseAfter(pipeStep[w] + 1)]

\* lines 43, 59-65 (part_003 lines 483-500): the awaited call of a step that
\* takes no nonce returns
StepOk(w) ==
    /\ pipePhase[w] = "run"
    /\ StepDone(w)
    /\ UNCHANGED << notPrepVars, nonceVars, prepMode, prepPc, allocated, sent >>

\* lines 59-64: completeTx(assetAddress, txId, publicKey, wallet) of the live
\* runner signs a transaction; it may call getNonce as swapETHForTokens does
CompleteTxGetNonce(w) ==
    /\ pipePhase[w] = "run"
    /\ prepMode = "live"
    /\ StepKind(w) = "complete"
    /\ pipePhase' = [pipePhase EXCEPT ![w] = "acquire"]
    /\ UNCHANGED << notPrepVars, nonceVars, prepMode, prepPc, pipeStep, built,
                    allocated, sent >>

\* An awaited call of the step throws: edictRunesForSwap, getChainId (evm.ts
\* line 151), signTransaction (evm.ts line 155), completeTx, addTxIntention,
\* finalizeBTCTransaction, signIntention.  Nothing catches it.
StepFail(w) ==
    /\ pipePhase[w] \in {"run", "acquire", "sign"}
    /\ pipePhase' = [pipePhase EXCEPT ![w] = "rejected"]
    /\ UNCHANGED << notPrepVars, nonceVars, prepMode, prepPc, pipeStep, built,
                    allocated, sent >>

\* part_001 line 74: nonceMutex.acquire() resolves for the step of wallet w
PipeAcquire(w) ==
    /\ pipePhase[w] = "acquire"
    /\ MutexFree(nonceMutex)
    /\ nonceMutex' = w
    /\ pipePhase' = [pipePhase EXCEPT ![w] = "query"]
    /\ UNCHANGED << notPrepVars, callVars, noncesByAddress,
                    pendingNoncesByAddress, prepMode, prepPc, pipeStep, built,
                    allocated, sent >>

\* part_001 lines 77-102: getTransactionCount resolves; the counters of the
\* address are updated, the nonce is returned and the mutex released
PipeNonceReturn(w) ==
    /\ pipePhase[w] = "query"
    /\ nonceMutex = w
    /\ LET stored == StoredNonce(noncesByAddress[w], txCount[w])
           nonce == PendingNonce(pendingNoncesByAddress[w], stored)
       IN  /\ noncesByAddress' = [noncesByAddress EXCEPT ![w] = stored]
           /\ pendingNoncesByAddress' =
                  [pendingNoncesByAddress EXCEPT ![w] = NextPending(nonce)]
           /\ allocated' = [allocated EXCEPT
                               ![w] = Append(@, [kind |-> StepKind(w),
                                                 nonce |-> nonce])]
    /\ nonceMutex' = GetNonceRelease(w)
    /\ pipePhase' = [pipePhase EXCEPT ![w] = "sign"]
    /\ UNCHANGED << notPrepVars, callVars, prepMode, prepPc, pipeStep, built,
                    sent >>

\* part_001 lines 77, 100-106: getTransactionCount rejects; the mutex is
\* released and getNonce throws, and with it the pipeline
PipeNonceFail(w) ==
    /\ pipePhase[w] = "query"
    /\ nonceMutex = w
    /\ nonceMutex' = GetNonceRelease(w)
    /\ pipePhase' = [pipePhase EXCEPT ![w] = "rejected"]
    /\ UNCHANGED << notPrepVars, callVars, noncesByAddress,
                    pendingNoncesByAddress, prepMode, prepPc, pipeStep, built,
                    allocated, sent >>

\* evm.ts lines 155-187: signTransaction returns the signed transaction
PipeSigned(w) ==
    /\ pipePhase[w] = "sign"
    /\ StepDone(w)
    /\ UNCHANGED << notPrepVars, nonceVars, prepMode, prepPc, allocated, sent >>

\* lines 170-192: Promise.all of the constructions fulfils; the live runner
\* goes on to call performOperationWithWallet for every wallet of the batch,
\* each calling sendBTCTransactions (line 86); the record-mode runner keeps
\* the operations for the payload file
PrepAllFulfilled ==
    /\ prepPc = "awaitBuild"
    /\ \A w \in Accounts : pipePhase[w] = "built"
    /\ IF prepMode = "live"
       THEN /\ prepPc' = "awaitSubmit"
            /\ pipePhase' = [w \in Accounts |-> "sending"]
            /\ sent' = [w \in Accounts |-> Append(sent[w], Payload(built[w]))]
       ELSE /\ prepPc' = "recorded"
            /\ UNCHANGED << pipePhase, sent >>
    /\ UNCHANGED << notPrepVars, nonceVars, prepMode, pipeStep, built,
                    allocated >>

\* line 171: Promise.all of the constructions rejects and the runner throws;
\* the other constructions go on
PrepAllRejected ==
    /\ prepPc = "awaitBuild"
    /\ \E w \in Accounts : pipePhase[w] = "rejected"
    /\ prepPc' = "thrown"
    /\ UNCHANGED << notPrepVars, nonceVars, prepMode, pipeStep, pipePhase,
                    built, allocated, sent >>

\* lines 85-108: sendBTCTransactions returns (ok) or throws and is caught
SendSettles(w, ok) ==
    /\ pipePhase[w] = "sending"
    /\ pipePhase' = [pipePhase EXCEPT ![w] = IF ok THEN "sent" ELSE "sendFailed"]
    /\ UNCHANGED << notPrepVars, nonceVars, prepMode, prepPc, pipeStep, built,
                    allocated, sent >>

\* lines 183-191: Promise.all of the submissions fulfils
PrepSubmitted ==
    /\ prepPc = "awaitSubmit"
    /\ \A w \in Accounts : pipePhase[w] \in {"sent", "sendFailed"}
    /\ prepPc' = "returned"
    /\ UNCHANGED << notPrepVars, nonceVars, prepMode, pipeStep, pipePhase,
                    built, allocated, sent >>

PrepNext ==
    \/ \E w \in Accounts : StepOk(w)
    \/ \E w \in Accounts : CompleteTxGetNonce(w)
    \/ \E w \in Accounts : StepFail(w)
    \/ \E w \in Accounts : PipeAcquire(w)
    \/ \E w \in Accounts : PipeNonceReturn(w)
    \/ \E w \in Accounts : PipeNonceFail(w)
    \/ \E w \in Accounts : PipeSigned(w)
    \/ PrepAllFulfilled
    \/ PrepAllRejected
    \/ \E w \in Accounts, ok \in BOOLEAN : SendSettles(w, ok)
    \/ PrepSubmitted

PrepSpec == PrepInit /\ [][PrepNext]_vars

\* --------------------------- claims: prepareTransactionsForWallet, one batch

\* The steps of a pipeline with the funding transaction first.
FundingFirst ==
    << "funding", "swap", "swap", "swap", "swap", "complete" >>

\* The steps of a pipeline of the record-mode runner: the funding
\* transaction is made from the five intentions, which are signed after it.
IntentionsFirst ==
    << "swap", "swap", "swap", "swap", "complete", "funding",
       "sign", "sign", "sign", "sign", "sign" >>

\* A pipeline was submitted only once all of its steps were built, once, as
\* one call carrying the five signed transactions and one funding
\* transaction.
SubmittedWhole(w) ==
    sent[w] # << >> =>
        /\ pipeStep[w] = Len(built[w])
        /\ Len(built[w]) = 6
        /\ sent[w] = << [txs |-> << "swap", "swap", "swap", "swap", "complete" >>,
                         btc |-> 1] >>

SwapNonces(w) ==
    LET a == SelectSeq(allocated[w], LAMBDA x : x.kind = "swap")
    IN  [k \in 1..Len(a) |-> a[k].nonce]

\* C39 (nonces of one pipeline): the nonces given to the swaps of one wallet
\* are consecutive and increasing in step order, whatever the other wallets
\* of the batch do meanwhile; a step that changes a counter of an account is
\* a step of the pipeline of that account, which holds the mutex.
C39_ConsecutiveNonces ==
    /\ [](\A w \in Accounts :
            \A k \in 1..(Len(SwapNonces(w)) - 1) :
                SwapNonces(w)[k + 1] = SwapNonces(w)[k] + 1)
    /\ [][\A a \in Accounts :
            (\/ noncesByAddress'[a] # noncesByAddress[a]
             \/ pendingNoncesByAddress'[a] # pendingNoncesByAddress[a])
                => (nonceMutex = a /\ pipePhase[a] = "query")]_vars

\* Two wallets each got four swap nonces, and their allocations interleaved:
\* one got its last nonce while the other was already past its first.
C39_Witness ==
    /\ prepMode = "live"
    /\ \A w \in Accounts : Len(SwapNonces(w)) >= 2
    /\ \E w \in Accounts : Len(SwapNonces(w)) = 4
    /\ \E w \in Accounts : Len(SwapNonces(w)) \in 2..3

\* =========================================================================
\* waitRuneAddress (utils) and getAssetAddressByRuneId (evm.ts)
\* =========================================================================

\* Polls counted in one behaviour; the function itself keeps no count.
MaxPolls == 8

\* Asset addresses the contract may come to hold for the rune.
AssetAddresses == {1, 2, 3}

\* line 206: if (runeAddress === zeroAddress)
Unresolved(runeAddress) == runeAddress = ZeroAddress

\* line 203: the call, up to its await of getAssetAddressByRuneId; the
\* contract may know the rune already
WaitInit ==
    /\ NonceIdle
    /\ DistIdle
    /\ LoadIdle
    /\ PoolIdle
    /\ RetryIdle
    /\ CliIdle
    /\ PrepIdle
    /\ waitPc = "poll"
    /\ polls = 0
    /\ waitResult = Undefined
    /\ directory \in {ZeroAddress} \cup AssetAddresses

\* lines 204-211: getAssetAddressByRuneId returns what the contract holds;
\* the zero address starts the wait of 5 seconds, another address is returned
GetAssetAddressOk ==
    /\ waitPc = "poll"
    /\ polls' = IF polls < MaxPolls THEN polls + 1 ELSE polls
    /\ IF Unresolved(directory)
       THEN /\ waitPc' = "sleep"
            /\ UNCHANGED waitResult
       ELSE /\ waitPc' = "returned"
            /\ waitResult' = directory
    /\ UNCHANGED << notWaitVars, directory >>

\* line 204 and evm.ts line 21: readContract throws; nothing catches it
GetAssetAddressFail ==
    /\ waitPc = "poll"
    /\ waitPc' = "thrown"
    /\ UNCHANGED << notWaitVars, polls, waitResult, directory >>

\* lines 208-209: the 5 seconds are over and the function calls itself, with
\* no count of the calls made
WaitAgain ==
    /\ waitPc = "sleep"
    /\ waitPc' = "poll"
    /\ UNCHANGED << notWaitVars, polls, waitResult, directory >>

\* The rune is etched and the contract learns its asset address.
DirectoryResolves(a) ==
    /\ directory = ZeroAddress
    /\ directory' = a
    /\ UNCHANGED << notWaitVars, waitPc, polls, waitResult >>

WaitNext ==
    \/ GetAssetAddressOk
    \/ GetAssetAddressFail
    \/ WaitAgain
    \/ \E a \in AssetAddresses : DirectoryResolves(a)

WaitSpec == WaitInit /\ [][WaitNext]_vars

\* Every awaited call settles and every timer fires.
WaitFairSpec == WaitSpec /\ WF_vars(WaitNext)

\* ------------------------------------------------- claims: waitRuneAddress

\* C36 (asset address polling): waitRuneAddress never returns the zero
\* address, it returns the address the contract holds, and every call of it
\* ends: with the address, or, when the address never resolves, with an
\* error after finitely many polls.
C36_PollingEnds ==
    /\ [](waitPc = "returned" =>
              (waitResult # ZeroAddress /\ waitResult = directory))
    /\ <>(waitPc \in {"returned", "thrown"})

====
